---- MODULE Spec2Model ----
(***************************************************************************)
(* A model of the 16-bit RISC emulator: the memory with its console port,  *)
(* the ALU, and the CPU's fetch-decode-execute step, together with the     *)
(* factorial program the repository ships.                                 *)
(***************************************************************************)
EXTENDS Integers, Sequences, FiniteSets, TLC

VARIABLES registers, pc, sp, flags, halted, instruction_count,
          data, console, nest, last

vars == <<registers, pc, sp, flags, halted, instruction_count,
          data, console, nest, last>>

cpuvars == <<registers, pc, sp, flags, halted, instruction_count>>

(***************************************************************************)
(* Types and constants (common/types.h)                                    *)
(***************************************************************************)
MEMORY_SIZE == 65536
PROGRAM_START == 0
STACK_END == 65535
IO_CONSOLE_OUT == 61440
NUM_REGISTERS == 8
FLAG_ZERO == 1
FLAG_CARRY == 2
FLAG_NEGATIVE == 4
FLAG_OVERFLOW == 8

\* conversion of a C integer to word_t / addr_t (uint16_t) and byte_t (uint8_t)
ToWord(x) == x % 65536
ToByte(x) == x % 256

\* the C operators << and >> on non-negative integers
ShiftLeft(x, k) == x * (2 ^ k)
ShiftRight(x, k) == x \div (2 ^ k)

\* bit i of x
Bit(x, i) == (x \div (2 ^ i)) % 2

\* the C operators &, |, ^ on operands below 2^17, bit by bit; the operands
\* are bound to their values first
AndBits(x, y) ==
    LET f[i \in 0..17] ==
            IF i = 17 THEN 0 ELSE (Bit(x, i) * Bit(y, i)) * (2 ^ i) + f[i + 1]
    IN  f[0]

OrBits(x, y) ==
    LET f[i \in 0..17] ==
            IF i = 17 THEN 0
            ELSE (IF Bit(x, i) + Bit(y, i) > 0 THEN 2 ^ i ELSE 0) + f[i + 1]
    IN  f[0]

XorBits(x, y) ==
    LET f[i \in 0..17] ==
            IF i = 17 THEN 0
            ELSE (((Bit(x, i) + Bit(y, i)) % 2) * (2 ^ i)) + f[i + 1]
    IN  f[0]

BitAnd(x, y) == CHOOSE r \in {AndBits(a, b) : a \in {x}, b \in {y}} : TRUE
BitOr(x, y) == CHOOSE r \in {OrBits(a, b) : a \in {x}, b \in {y}} : TRUE
BitXor(x, y) == CHOOSE r \in {XorBits(a, b) : a \in {x}, b \in {y}} : TRUE

\* instruction field decoding and encoding macros
GET_OPCODE(instr) == BitAnd(ShiftRight(instr, 10), 63)
GET_RD(instr) == BitAnd(ShiftRight(instr, 7), 7)
\* fault of GET_RS: the field of bits 9..7 taken
GET_RS_high(instr) == BitAnd(ShiftRight(instr, 7), 7)

GET_RS(instr) == BitAnd(ShiftRight(instr, 4), 7)
GET_RT(instr) == BitAnd(instr, 15)
GET_IMM4(instr) == BitAnd(instr, 15)
GET_IMM7(instr) == BitAnd(instr, 127)

MAKE_INSTR(op, rd, rs, rt) ==
    BitOr(BitOr(ShiftLeft(BitAnd(op, 63), 10), ShiftLeft(BitAnd(rd, 7), 7)),
          BitOr(ShiftLeft(BitAnd(rs, 7), 4), BitAnd(rt, 15)))

\* imm is given as the two's complement word of the immediate
MAKE_INSTR_IMM7(op, rd, imm) ==
    BitOr(BitOr(ShiftLeft(BitAnd(op, 63), 10), ShiftLeft(BitAnd(rd, 7), 7)),
          BitAnd(imm, 127))

\* int16_t results, as the signed integer they denote
\* fault of sign_extend_4bit: bit 3 not extended
sign_extend_4bit_unsigned(val) == val

sign_extend_4bit(val) ==
    IF BitAnd(val, 8) # 0 THEN BitOr(val, 65520) - 65536 ELSE val

\* fault of sign_extend_7bit: bit 6 not extended
sign_extend_7bit_unsigned(val) == val

sign_extend_7bit(val) ==
    IF BitAnd(val, 64) # 0 THEN BitOr(val, 65408) - 65536 ELSE val

(***************************************************************************)
(* Memory (emulator/memory.cpp).  A memory is the backing array together   *)
(* with the bytes written to the host's standard output.  The backing      *)
(* array is kept as the function of its non-zero bytes: clear() zeroes     *)
(* every byte, and a byte read outside the domain is 0.                    *)
(***************************************************************************)
clear == << >>

read_byte(d, address) == IF address \in DOMAIN d THEN d[address] ELSE 0

\* data[address] = value
StoreByte(d, address, value) ==
    IF value = 0
    THEN [x \in (DOMAIN d) \ {address} |-> d[x]]
    ELSE [x \in (DOMAIN d) \cup {address} |-> IF x = address THEN value ELSE d[x]]

\* faults of write_byte: the trap taken for the whole I/O page 0xF000-0xF0FF;
\* the trap emitting the byte without the early return
write_byte_io_region(m, address, value) ==
    IF address >= IO_CONSOLE_OUT /\ address < IO_CONSOLE_OUT + 256
    THEN [m EXCEPT !.console = Append(m.console, value)]
    ELSE [m EXCEPT !.data = StoreByte(m.data, address, value)]

write_byte_stored(m, address, value) ==
    IF address = IO_CONSOLE_OUT
    THEN [m EXCEPT !.console = Append(m.console, value),
                   !.data = StoreByte(m.data, address, value)]
    ELSE [m EXCEPT !.data = StoreByte(m.data, address, value)]

write_byte(m, address, value) ==
    IF address = IO_CONSOLE_OUT
    THEN [m EXCEPT !.console = Append(m.console, value)]
    ELSE [m EXCEPT !.data = StoreByte(m.data, address, value)]

read_word(d, address) ==
    LET low == read_byte(d, address)
        high == read_byte(d, ToWord(address + 1))
    IN  ToWord(BitOr(ShiftLeft(high, 8), low))

\* faults of write_word: the high byte first; the word stored as a unit, the
\* console port looked for at the word's own address only
write_word_big_endian(m, address, value) ==
    LET m1 == write_byte(m, address, ToByte(BitAnd(ShiftRight(value, 8), 255)))
    IN  write_byte(m1, ToWord(address + 1), ToByte(BitAnd(value, 255)))

write_word_whole(m, address, value) ==
    IF address = IO_CONSOLE_OUT
    THEN [m EXCEPT !.console = Append(m.console, ToByte(BitAnd(value, 255)))]
    ELSE [m EXCEPT !.data =
              StoreByte(StoreByte(m.data, address, ToByte(BitAnd(value, 255))),
                        ToWord(address + 1), ToByte(BitAnd(ShiftRight(value, 8), 255)))]

write_word(m, address, value) ==
    LET m1 == write_byte(m, address, ToByte(BitAnd(value, 255)))
    IN  write_byte(m1, ToWord(address + 1), ToByte(BitAnd(ShiftRight(value, 8), 255)))

\* load_program: the bytes of the file land in the backing array as they are
CopyBytes(d, bytes, start_address) ==
    LET target == start_address..(start_address + Len(bytes) - 1)
        nonzero == {x \in target : bytes[x - start_address + 1] # 0}
    IN  [x \in ((DOMAIN d) \ target) \cup nonzero |->
            IF x \in target THEN bytes[x - start_address + 1] ELSE d[x]]

\* fault of load_program: the size of the file not verified
load_program_unverified(d, bytes, start_address) ==
    [ok |-> TRUE, data |-> CopyBytes(d, bytes, start_address)]

load_program(d, bytes, start_address) ==
    IF start_address + Len(bytes) > MEMORY_SIZE
    THEN [ok |-> FALSE, data |-> d]
    ELSE [ok |-> TRUE, data |-> CopyBytes(d, bytes, start_address)]

(***************************************************************************)
(* ALU (emulator/alu.cpp).  Every operation takes the operands and gives   *)
(* the record of its result and the flags word it leaves.                  *)
(***************************************************************************)
\* fault of clear_flags: the incoming flags word left as it is
clear_flags_kept(f) == f

\* flags = 0, whatever the flags word held
clear_flags(f) == 0

\* fault of set_zero_flag: Z never set
set_zero_flag_missing(result, f) == f

set_zero_flag(result, f) == IF result = 0 THEN BitOr(f, FLAG_ZERO) ELSE f

set_negative_flag(result, f) ==
    IF BitAnd(result, 32768) # 0 THEN BitOr(f, FLAG_NEGATIVE) ELSE f

\* fault of add: carry already at a sum of 0xFFFF
ALU_add_early_carry(a, b, f) ==
    LET result32 == a + b
        result == ToWord(result32)
        f1 == IF result32 >= 65535 THEN BitOr(clear_flags(f), FLAG_CARRY) ELSE clear_flags(f)
        a_neg == BitAnd(a, 32768) # 0
        b_neg == BitAnd(b, 32768) # 0
        r_neg == BitAnd(result, 32768) # 0
        f2 == IF (a_neg = b_neg) /\ (a_neg # r_neg) THEN BitOr(f1, FLAG_OVERFLOW) ELSE f1
    IN  [result |-> result, flags |-> set_negative_flag(result, set_zero_flag(result, f2))]

ALU_add(a, b, f) ==
    LET result32 == a + b
        result == ToWord(result32)
        f1 == IF result32 > 65535 THEN BitOr(clear_flags(f), FLAG_CARRY) ELSE clear_flags(f)
        a_neg == BitAnd(a, 32768) # 0
        b_neg == BitAnd(b, 32768) # 0
        r_neg == BitAnd(result, 32768) # 0
        f2 == IF (a_neg = b_neg) /\ (a_neg # r_neg) THEN BitOr(f1, FLAG_OVERFLOW) ELSE f1
    IN  [result |-> result, flags |-> set_negative_flag(result, set_zero_flag(result, f2))]

\* fault of sub: borrow also when a = b
ALU_sub_borrow_on_equal(a, b, f) ==
    LET result32 == a - b
        result == ToWord(result32)
        f1 == IF a <= b THEN BitOr(clear_flags(f), FLAG_CARRY) ELSE clear_flags(f)
        a_neg == BitAnd(a, 32768) # 0
        b_neg == BitAnd(b, 32768) # 0
        r_neg == BitAnd(result, 32768) # 0
        f2 == IF (a_neg # b_neg) /\ (a_neg # r_neg) THEN BitOr(f1, FLAG_OVERFLOW) ELSE f1
    IN  [result |-> result, flags |-> set_negative_flag(result, set_zero_flag(result, f2))]

ALU_sub(a, b, f) ==
    LET result32 == a - b
        result == ToWord(result32)
        f1 == IF a < b THEN BitOr(clear_flags(f), FLAG_CARRY) ELSE clear_flags(f)
        a_neg == BitAnd(a, 32768) # 0
        b_neg == BitAnd(b, 32768) # 0
        r_neg == BitAnd(result, 32768) # 0
        f2 == IF (a_neg # b_neg) /\ (a_neg # r_neg) THEN BitOr(f1, FLAG_OVERFLOW) ELSE f1
    IN  [result |-> result, flags |-> set_negative_flag(result, set_zero_flag(result, f2))]

\* (uint32_t)a * (uint32_t)b as the pair of its halves, hi * 65536 + lo, built
\* from the partial products of a's two bytes so that no term passes 2^31
Product32(a, b) ==
    LET t1 == (a \div 256) * b
        t2 == (a % 256) * b
        low == ((t1 % 256) * 256) + t2
    IN  [hi |-> (t1 \div 256) + (low \div 65536), lo |-> low % 65536]

\* fault of mul: the high half of the 32-bit product returned
ALU_mul_high(a, b, f) ==
    LET result32 == Product32(a, b)
        result == ToWord(result32.hi)
        f1 == IF result32.hi > 0 THEN BitOr(clear_flags(f), FLAG_CARRY) ELSE clear_flags(f)
    IN  [result |-> result, flags |-> set_negative_flag(result, set_zero_flag(result, f1))]

ALU_mul(a, b, f) ==
    LET result32 == Product32(a, b)
        result == ToWord(result32.lo)
        f1 == IF result32.hi > 0 THEN BitOr(clear_flags(f), FLAG_CARRY) ELSE clear_flags(f)
    IN  [result |-> result, flags |-> set_negative_flag(result, set_zero_flag(result, f1))]

ALU_div(a, b, f) ==
    IF b = 0
    THEN [result |-> 65535, flags |-> BitOr(clear_flags(f), FLAG_OVERFLOW)]
    ELSE LET result == ToWord(a \div b)
         IN  [result |-> result,
              flags |-> set_negative_flag(result, set_zero_flag(result, clear_flags(f)))]

ALU_and_op(a, b, f) ==
    LET result == BitAnd(a, b)
    IN  [result |-> result,
         flags |-> set_negative_flag(result, set_zero_flag(result, clear_flags(f)))]

ALU_or_op(a, b, f) ==
    LET result == BitOr(a, b)
    IN  [result |-> result,
         flags |-> set_negative_flag(result, set_zero_flag(result, clear_flags(f)))]

\* fault of xor_op: the inclusive or
ALU_xor_op_inclusive(a, b, f) ==
    LET result == BitOr(a, b)
    IN  [result |-> result,
         flags |-> set_negative_flag(result, set_zero_flag(result, clear_flags(f)))]

ALU_xor_op(a, b, f) ==
    LET result == BitXor(a, b)
    IN  [result |-> result,
         flags |-> set_negative_flag(result, set_zero_flag(result, clear_flags(f)))]

ALU_not_op(a, f) ==
    LET result == 65535 - a
    IN  [result |-> result,
         flags |-> set_negative_flag(result, set_zero_flag(result, clear_flags(f)))]

\* fault of shl: the carry taken from bit 15 - shift
ALU_shl_carry_below(a, shift, f) ==
    IF shift >= 16
    THEN LET f1 == IF shift = 16 /\ BitAnd(a, 1) # 0
                   THEN BitOr(clear_flags(f), FLAG_CARRY) ELSE clear_flags(f)
         IN  [result |-> 0, flags |-> set_zero_flag(0, f1)]
    ELSE LET f1 == IF shift > 0 /\ BitAnd(a, ShiftLeft(1, 15 - shift)) # 0
                   THEN BitOr(clear_flags(f), FLAG_CARRY) ELSE clear_flags(f)
             result == ToWord(ShiftLeft(a, shift))
         IN  [result |-> result,
              flags |-> set_negative_flag(result, set_zero_flag(result, f1))]

ALU_shl(a, shift, f) ==
    IF shift >= 16
    THEN LET f1 == IF shift = 16 /\ BitAnd(a, 1) # 0
                   THEN BitOr(clear_flags(f), FLAG_CARRY) ELSE clear_flags(f)
         IN  [result |-> 0, flags |-> set_zero_flag(0, f1)]
    ELSE LET f1 == IF shift > 0 /\ BitAnd(a, ShiftLeft(1, 16 - shift)) # 0
                   THEN BitOr(clear_flags(f), FLAG_CARRY) ELSE clear_flags(f)
             result == ToWord(ShiftLeft(a, shift))
         IN  [result |-> result,
              flags |-> set_negative_flag(result, set_zero_flag(result, f1))]

\* fault of shr: the carry taken from bit shift
ALU_shr_carry_above(a, shift, f) ==
    IF shift >= 16
    THEN LET f1 == IF shift = 16 /\ BitAnd(a, 32768) # 0
                   THEN BitOr(clear_flags(f), FLAG_CARRY) ELSE clear_flags(f)
         IN  [result |-> 0, flags |-> set_zero_flag(0, f1)]
    ELSE LET f1 == IF shift > 0 /\ BitAnd(a, ShiftLeft(1, shift)) # 0
                   THEN BitOr(clear_flags(f), FLAG_CARRY) ELSE clear_flags(f)
             result == ToWord(ShiftRight(a, shift))
         IN  [result |-> result,
              flags |-> set_negative_flag(result, set_zero_flag(result, f1))]

ALU_shr(a, shift, f) ==
    IF shift >= 16
    THEN LET f1 == IF shift = 16 /\ BitAnd(a, 32768) # 0
                   THEN BitOr(clear_flags(f), FLAG_CARRY) ELSE clear_flags(f)
         IN  [result |-> 0, flags |-> set_zero_flag(0, f1)]
    ELSE LET f1 == IF shift > 0 /\ BitAnd(a, ShiftLeft(1, shift - 1)) # 0
                   THEN BitOr(clear_flags(f), FLAG_CARRY) ELSE clear_flags(f)
             result == ToWord(ShiftRight(a, shift))
         IN  [result |-> result,
              flags |-> set_negative_flag(result, set_zero_flag(result, f1))]

\* fault of compare: the operands exchanged
ALU_compare_exchanged(a, b, f) == [result |-> 0, flags |-> ALU_sub(b, a, f).flags]

ALU_compare(a, b, f) == [result |-> 0, flags |-> ALU_sub(a, b, f).flags]

(***************************************************************************)
(* Opcode table (common/instructions.h)                                    *)
(***************************************************************************)
OP_NOP == 0
OP_MOVI == 1
OP_LOAD_IND == 2
OP_LOAD_DIR == 3
OP_STORE_IND == 4
OP_STORE_DIR == 5
OP_ADD == 6
OP_ADDI == 7
OP_SUB == 8
OP_SUBI == 9
OP_MUL == 10
OP_DIV == 11
OP_INC == 12
OP_DEC == 13
OP_AND == 14
OP_ANDI == 15
OP_OR == 16
OP_ORI == 17
OP_XOR == 18
OP_NOT == 19
OP_SHL == 20
OP_SHLI == 21
OP_SHR == 22
OP_SHRI == 23
OP_CMP == 24
OP_CMPI == 25
OP_JMP == 26
OP_JZ == 27
OP_JNZ == 28
OP_JC == 29
OP_JNC == 30
OP_JN == 31
OP_CALL == 32
OP_RET == 33
OP_PUSH == 34
OP_POP == 35
OP_HALT == 36

\* the opcodes of the table
KnownOpcodes == OP_NOP..OP_HALT

(***************************************************************************)
(* CPU (emulator/cpu.cpp).  A machine state s is the record of the CPU's   *)
(* fields and of the memory it refers to.                                  *)
(***************************************************************************)
Machine ==
    [registers |-> registers, pc |-> pc, sp |-> sp, flags |-> flags,
     halted |-> halted, instruction_count |-> instruction_count,
     data |-> data, console |-> console]

Mem(s) == [data |-> s.data, console |-> s.console]

WithMem(s, m) == [s EXCEPT !.data = m.data, !.console = m.console]

\* fault of reset: the stack pointer set to the even address under STACK_END
reset_aligned(s) ==
    [s EXCEPT !.registers = [i \in 0..(NUM_REGISTERS - 1) |-> 0],
              !.pc = PROGRAM_START,
              !.sp = STACK_END - 1,
              !.flags = 0,
              !.halted = FALSE,
              !.instruction_count = 0]

\* CPU::reset: the memory is a reference the CPU does not touch
reset(s) ==
    [s EXCEPT !.registers = [i \in 0..(NUM_REGISTERS - 1) |-> 0],
              !.pc = PROGRAM_START,
              !.sp = STACK_END,
              !.flags = 0,
              !.halted = FALSE,
              !.instruction_count = 0]

\* fault of push: SP taken down by one byte
push_byte(s, value) ==
    LET sp2 == ToWord(s.sp - 1)
    IN  WithMem([s EXCEPT !.sp = sp2], write_word(Mem(s), sp2, value))

\* fault of push: SP taken down by two words
push_wide(s, value) ==
    LET sp2 == ToWord(s.sp - 4)
    IN  WithMem([s EXCEPT !.sp = sp2], write_word(Mem(s), sp2, value))

push(s, value) ==
    LET sp2 == ToWord(s.sp - 2)
    IN  WithMem([s EXCEPT !.sp = sp2], write_word(Mem(s), sp2, value))

\* fault of pop: SP taken up by one byte
pop_byte(s) ==
    [value |-> read_word(s.data, s.sp), state |-> [s EXCEPT !.sp = ToWord(s.sp + 1)]]

\* the popped value and the state pop() leaves
pop(s) ==
    [value |-> read_word(s.data, s.sp), state |-> [s EXCEPT !.sp = ToWord(s.sp + 2)]]

\* fault of halt: the halted flag left as it is
halt_missing(s) == s

halt(s) == [s EXCEPT !.halted = TRUE]

\* fault of the flag test of a conditional jump: the sense inverted
flag_test_inverted(f, flag) == BitAnd(f, flag) = 0

\* flags & FLAG_x, the condition of a conditional jump
flag_test(f, flag) == BitAnd(f, flag) # 0

\* registers[i]: an index of 8..15 (a 4-bit rt field) reads past the array,
\* and u stands for whatever that read gives
Reg(s, i, u) == IF i < NUM_REGISTERS THEN s.registers[i] ELSE u

\* fault of a register write: Z and N set from the value written
SetReg_with_flags(s, rd, value) ==
    [s EXCEPT !.registers[rd] = ToWord(value),
              !.flags = set_negative_flag(ToWord(value), set_zero_flag(ToWord(value), 0))]

SetReg(s, rd, value) == [s EXCEPT !.registers[rd] = ToWord(value)]

\* registers[rd] = ALU::op(...): the result to Rd, the flags to FLAGS
SetAlu(s, rd, r) == [s EXCEPT !.registers[rd] = r.result, !.flags = r.flags]

execute_instruction(s, instruction, u) ==
    LET opcode == GET_OPCODE(instruction)
        rd == GET_RD(instruction)
        rs == GET_RS(instruction)
        rt == GET_RT(instruction)
        imm4 == GET_IMM4(instruction)
        imm7 == GET_IMM7(instruction)
        Rs == s.registers[rs]
        Rd == s.registers[rd]
        Rt == Reg(s, rt, u)
        address == read_word(s.data, s.pc)
        pc2 == ToWord(s.pc + 2)
    IN  CASE opcode = OP_NOP ->
               IF rd # rs THEN SetReg(s, rd, Rs) ELSE s
          [] opcode = OP_MOVI -> SetReg(s, rd, sign_extend_7bit(imm7))
          [] opcode = OP_LOAD_IND -> SetReg(s, rd, read_word(s.data, Rs))
          [] opcode = OP_LOAD_DIR ->
               SetReg([s EXCEPT !.pc = pc2], rd, read_word(s.data, address))
          [] opcode = OP_STORE_IND -> WithMem(s, write_word(Mem(s), Rd, Rs))
          [] opcode = OP_STORE_DIR ->
               WithMem([s EXCEPT !.pc = pc2], write_word(Mem(s), address, Rs))
          [] opcode = OP_ADD -> SetAlu(s, rd, ALU_add(Rs, Rt, s.flags))
          [] opcode = OP_ADDI -> SetAlu(s, rd, ALU_add(Rs, ToWord(sign_extend_4bit(imm4)), s.flags))
          [] opcode = OP_SUB -> SetAlu(s, rd, ALU_sub(Rs, Rt, s.flags))
          [] opcode = OP_SUBI -> SetAlu(s, rd, ALU_sub(Rs, ToWord(sign_extend_4bit(imm4)), s.flags))
          [] opcode = OP_MUL -> SetAlu(s, rd, ALU_mul(Rs, Rt, s.flags))
          [] opcode = OP_DIV -> SetAlu(s, rd, ALU_div(Rs, Rt, s.flags))
          [] opcode = OP_INC -> SetAlu(s, rd, ALU_add(Rd, 1, s.flags))
          [] opcode = OP_DEC -> SetAlu(s, rd, ALU_sub(Rd, 1, s.flags))
          [] opcode = OP_AND -> SetAlu(s, rd, ALU_and_op(Rs, Rt, s.flags))
          [] opcode = OP_ANDI -> SetAlu(s, rd, ALU_and_op(Rs, imm4, s.flags))
          [] opcode = OP_OR -> SetAlu(s, rd, ALU_or_op(Rs, Rt, s.flags))
          [] opcode = OP_ORI -> SetAlu(s, rd, ALU_or_op(Rs, imm4, s.flags))
          [] opcode = OP_XOR -> SetAlu(s, rd, ALU_xor_op(Rs, Rt, s.flags))
          [] opcode = OP_NOT -> SetAlu(s, rd, ALU_not_op(Rs, s.flags))
          [] opcode = OP_SHL -> SetAlu(s, rd, ALU_shl(Rs, Rt, s.flags))
          [] opcode = OP_SHLI -> SetAlu(s, rd, ALU_shl(Rs, imm4, s.flags))
          [] opcode = OP_SHR -> SetAlu(s, rd, ALU_shr(Rs, Rt, s.flags))
          [] opcode = OP_SHRI -> SetAlu(s, rd, ALU_shr(Rs, imm4, s.flags))
          [] opcode = OP_CMP -> [s EXCEPT !.flags = ALU_compare(Rs, Rt, s.flags).flags]
          [] opcode = OP_CMPI ->
               [s EXCEPT !.flags = ALU_compare(Rs, ToWord(sign_extend_4bit(imm4)), s.flags).flags]
          [] opcode = OP_JMP -> [s EXCEPT !.pc = address]
          [] opcode = OP_JZ ->
               [s EXCEPT !.pc = IF flag_test(s.flags, FLAG_ZERO) THEN address ELSE pc2]
          [] opcode = OP_JNZ ->
               [s EXCEPT !.pc = IF ~flag_test(s.flags, FLAG_ZERO) THEN address ELSE pc2]
          [] opcode = OP_JC ->
               [s EXCEPT !.pc = IF flag_test(s.flags, FLAG_CARRY) THEN address ELSE pc2]
          [] opcode = OP_JNC ->
               [s EXCEPT !.pc = IF ~flag_test(s.flags, FLAG_CARRY) THEN address ELSE pc2]
          [] opcode = OP_JN ->
               [s EXCEPT !.pc = IF flag_test(s.flags, FLAG_NEGATIVE) THEN address ELSE pc2]
          [] opcode = OP_CALL ->
               [push([s EXCEPT !.pc = pc2], pc2) EXCEPT !.pc = address]
          [] opcode = OP_RET ->
               LET p == pop(s) IN [p.state EXCEPT !.pc = p.value]
          [] opcode = OP_PUSH -> push(s, Rs)
          [] opcode = OP_POP ->
               LET p == pop(s) IN SetReg(p.state, rd, p.value)
          [] opcode = OP_HALT -> halt(s)
          [] OTHER -> halt(s)

\* whether execute_instruction reads registers[rt] with the 4-bit rt field
ReadsRt(opcode) ==
    opcode \in {OP_ADD, OP_SUB, OP_MUL, OP_DIV, OP_AND, OP_OR, OP_XOR,
                OP_SHL, OP_SHR, OP_CMP}

\* fault of fetch_decode_execute: PC moved on by one byte
fetch_decode_execute_byte_advance(s, u) ==
    LET instruction == read_word(s.data, s.pc)
    IN  execute_instruction([s EXCEPT !.pc = ToWord(s.pc + 1)], instruction, u)

fetch_decode_execute(s, u) ==
    LET instruction == read_word(s.data, s.pc)
    IN  execute_instruction([s EXCEPT !.pc = ToWord(s.pc + 2)], instruction, u)

\* fault of step: no test of halted
step_while_halted(s, u) ==
    LET t == fetch_decode_execute(s, u)
    IN  [t EXCEPT !.instruction_count = t.instruction_count + 1]

\* fault of step: the instruction that halts the CPU is not counted
step_uncounted_halt(s, u) ==
    IF s.halted THEN s
    ELSE LET t == fetch_decode_execute(s, u)
         IN  IF t.halted THEN t
             ELSE [t EXCEPT !.instruction_count = t.instruction_count + 1]

\* fault of step: an instruction that leaves V set halts the CPU
step_trapping_overflow(s, u) ==
    IF s.halted THEN s
    ELSE LET t == fetch_decode_execute(s, u)
         IN  [t EXCEPT !.instruction_count = t.instruction_count + 1,
                       !.halted = t.halted \/ BitAnd(t.flags, FLAG_OVERFLOW) # 0]

step(s, u) ==
    IF s.halted THEN s
    ELSE LET t == fetch_decode_execute(s, u)
         IN  [t EXCEPT !.instruction_count = t.instruction_count + 1]

(***************************************************************************)
(* Assembler (assembler/assembler.cpp), as far as the factorial program    *)
(* uses it.  A statement is a label declaration or a mnemonic with its     *)
(* operands; pass 1 gives every label its address, pass 2 emits the words. *)
(***************************************************************************)
Lbl(name) == [kind |-> "label", name |-> name]
Ins(op, rd, rs, rt) == [kind |-> "instr", op |-> op, rd |-> rd, rs |-> rs, rt |-> rt]
Imm7(op, rd, imm) == [kind |-> "imm7", op |-> op, rd |-> rd, imm |-> imm]
Dir(op, rd, rs, addr) == [kind |-> "direct", op |-> op, rd |-> rd, rs |-> rs, addr |-> addr]
Ref(op, name) == [kind |-> "branch", op |-> op, name |-> name]

\* encoded size of a statement: 2 bytes, or 4 with an inline address word
StatementSize(st) ==
    CASE st.kind = "label" -> 0
      [] st.kind \in {"direct", "branch"} -> 4
      [] OTHER -> 2

\* cur_addr before statement i of prog: the sizes of the statements before it
AddressOf(prog, i) ==
    2 * Cardinality({j \in 1..(i - 1) : prog[j].kind # "label"})
    + 2 * Cardinality({j \in 1..(i - 1) : prog[j].kind \in {"direct", "branch"}})

\* pass 1: the symbol table
SymbolTable(prog) ==
    [name \in {prog[i].name : i \in {j \in 1..Len(prog) : prog[j].kind = "label"}} |->
        AddressOf(prog, CHOOSE i \in 1..Len(prog) :
                            prog[i].kind = "label" /\ prog[i].name = name)]

\* pass 2: the words of one statement
EmitWords(st, symbols) ==
    CASE st.kind = "label" -> << >>
      [] st.kind = "instr" -> << MAKE_INSTR(st.op, st.rd, st.rs, st.rt) >>
      [] st.kind = "imm7" -> << MAKE_INSTR_IMM7(st.op, st.rd, ToWord(st.imm)) >>
      [] st.kind = "direct" -> << MAKE_INSTR(st.op, st.rd, st.rs, 0), st.addr >>
      [] st.kind = "branch" -> << MAKE_INSTR(st.op, 0, 0, 0), symbols[st.name] >>

\* the output buffer: the byte at each address comes from the statement
\* emitted there, every word low byte first
Assemble(prog) ==
    LET symbols == SymbolTable(prog)
        size == AddressOf(prog, Len(prog) + 1)
        EmittedAt(addr) ==
            CHOOSE i \in 1..Len(prog) :
                /\ AddressOf(prog, i) <= addr
                /\ addr < AddressOf(prog, i) + StatementSize(prog[i])
        ByteAt(addr) ==
            LET i == EmittedAt(addr)
                offset == addr - AddressOf(prog, i)
                word == EmitWords(prog[i], symbols)[(offset \div 2) + 1]
            IN  IF offset % 2 = 0 THEN word % 256 ELSE word \div 256
    IN  [k \in 1..size |-> ByteAt(k - 1)]

(***************************************************************************)
(* programs/factorial.asm, with the argument of FACTORIAL (5 in the file)  *)
(* as n                                                                    *)
(***************************************************************************)
PrintR3 == Dir(OP_STORE_DIR, 0, 3, IO_CONSOLE_OUT)

FactorialSource(n) ==
    << Lbl("START"),
       Imm7(OP_MOVI, 3, 60), Ins(OP_ADDI, 3, 3, 7), Ins(OP_ADDI, 3, 3, 3), PrintR3,
       Imm7(OP_MOVI, 3, 40), PrintR3,
       Imm7(OP_MOVI, 3, 48), Ins(OP_ADDI, 3, 3, 5), PrintR3,
       Imm7(OP_MOVI, 3, 41), PrintR3,
       Imm7(OP_MOVI, 3, 32), PrintR3,
       Imm7(OP_MOVI, 3, 61), PrintR3,
       Imm7(OP_MOVI, 3, 32), PrintR3,
       Imm7(OP_MOVI, 1, n),
       Ref(OP_CALL, "FACTORIAL"),
       Ins(OP_NOP, 4, 0, 0),
       Imm7(OP_MOVI, 5, 50), Imm7(OP_MOVI, 6, 50), Ins(OP_ADD, 5, 5, 6),
       Ins(OP_DIV, 6, 4, 5), Ins(OP_MUL, 7, 6, 5), Ins(OP_SUB, 4, 4, 7),
       Ins(OP_CMPI, 0, 6, 0),
       Ref(OP_JZ, "SKIP_HUNDREDS"),
       Imm7(OP_MOVI, 3, 48), Ins(OP_ADD, 3, 3, 6), PrintR3,
       Lbl("SKIP_HUNDREDS"),
       Imm7(OP_MOVI, 5, 10),
       Ins(OP_DIV, 6, 4, 5), Ins(OP_MUL, 7, 6, 5), Ins(OP_SUB, 4, 4, 7),
       Imm7(OP_MOVI, 3, 48), Ins(OP_ADD, 3, 3, 6), PrintR3,
       Imm7(OP_MOVI, 3, 48), Ins(OP_ADD, 3, 3, 4), PrintR3,
       Imm7(OP_MOVI, 3, 10), PrintR3,
       Ins(OP_HALT, 0, 0, 0),
       Lbl("FACTORIAL"),
       Ins(OP_PUSH, 0, 1, 0),
       Ins(OP_CMPI, 0, 1, 1),
       Ref(OP_JZ, "BASE_CASE"),
       Ins(OP_PUSH, 0, 1, 0),
       Ins(OP_SUBI, 1, 1, 1),
       Ref(OP_CALL, "FACTORIAL"),
       Ins(OP_POP, 2, 0, 0),
       Ins(OP_MUL, 0, 0, 2),
       Ins(OP_POP, 1, 0, 0),
       Ins(OP_RET, 0, 0, 0),
       Lbl("BASE_CASE"),
       Imm7(OP_MOVI, 0, 1),
       Ins(OP_POP, 1, 0, 0),
       Ins(OP_RET, 0, 0, 0) >>

FactorialImage(n) == Assemble(FactorialSource(n))

(***************************************************************************)
(* The emulator as a state machine                                         *)
(***************************************************************************)
\* Memory memory; CPU cpu(memory): a cleared memory and a reset CPU
Constructed ==
    reset([registers |-> << >>, pc |-> 0, sp |-> 0, flags |-> 0, halted |-> FALSE,
           instruction_count |-> 0, data |-> clear, console |-> << >>])

SetMachine(t) ==
    /\ registers' = t.registers
    /\ pc' = t.pc
    /\ sp' = t.sp
    /\ flags' = t.flags
    /\ halted' = t.halted
    /\ instruction_count' = t.instruction_count
    /\ data' = t.data
    /\ console' = t.console

IsMachine(t) ==
    /\ registers = t.registers
    /\ pc = t.pc
    /\ sp = t.sp
    /\ flags = t.flags
    /\ halted = t.halted
    /\ instruction_count = t.instruction_count
    /\ data = t.data
    /\ console = t.console

\* what a read of registers[rt] past the array may give
UBWords == {0, 1, 32768, 65535}

Fetched(s) == read_word(s.data, s.pc)

ReadsPastRegisters(s) ==
    /\ ~s.halted
    /\ ReadsRt(GET_OPCODE(Fetched(s)))
    /\ GET_RT(Fetched(s)) >= NUM_REGISTERS

\* History of the stack discipline: the PUSHes and CALLs executed and not yet
\* matched, innermost last, and whether every POP and RET so far matched the
\* innermost of them.
NoNest == [open |-> << >>, ok |-> TRUE]

Matched(h, kind) ==
    IF h.open # << >> /\ h.open[Len(h.open)] = kind
    THEN [h EXCEPT !.open = SubSeq(h.open, 1, Len(h.open) - 1)]
    ELSE [h EXCEPT !.ok = FALSE]

Track(h, s) ==
    LET opcode == GET_OPCODE(Fetched(s))
    IN  CASE s.halted -> h
          [] opcode = OP_PUSH -> [h EXCEPT !.open = Append(h.open, "PUSH")]
          [] opcode = OP_CALL -> [h EXCEPT !.open = Append(h.open, "CALL")]
          [] opcode = OP_POP -> Matched(h, "PUSH")
          [] opcode = OP_RET -> Matched(h, "CALL")
          [] OTHER -> h

\* the operation performed last: its name, its two inputs, the value it
\* returned (0 if none), the length of the console output before it, and the
\* number n of operations performed on the machine so far; idle tells that
\* step has since been called on the halted CPU, flags_in is the FLAGS word
\* the operation found
Did(op, a, b, result) ==
    [op |-> op, a |-> a, b |-> b, result |-> result,
     out |-> Len(console), n |-> last.n + 1, idle |-> FALSE, flags_in |-> flags]

\* no operation yet, after load_program(bytes, a)
NoneYet(a, b) ==
    [op |-> "load_program", a |-> a, b |-> b, result |-> 0, out |-> 0, n |-> 0,
     idle |-> FALSE, flags_in |-> 0]

\* CPU::step; on a halted CPU it returns at once
Step ==
    \E u \in (IF ReadsPastRegisters(Machine) THEN UBWords ELSE {0}) :
      \E t \in {step(Machine, u)} :
        /\ SetMachine(t)
        /\ nest' = Track(nest, Machine)
        /\ last' = IF halted THEN [last EXCEPT !.idle = TRUE]
                   ELSE Did("step", pc, Fetched(Machine), 0)

(***************************************************************************)
(* The emulator's main on the factorial program: load at 0x0000, then run  *)
(***************************************************************************)
MaxArg == 6

Loaded(bytes, start_address) ==
    [Constructed EXCEPT !.data = load_program(clear, bytes, start_address).data]

InitFactorial ==
    \E n \in 1..MaxArg :
        /\ IsMachine(Loaded(FactorialImage(n), PROGRAM_START))
        /\ nest = NoNest
        /\ last = NoneYet(PROGRAM_START, n)

\* CPU::run is the loop while (!halted) step(): its iterations are the Step
\* transitions taken while the CPU is not halted
NextFactorial == Step

SpecFactorial == InitFactorial /\ [][NextFactorial]_vars

\* run goes on stepping while the CPU is not halted
FairSpecFactorial == SpecFactorial /\ WF_vars(Step)

(***************************************************************************)
(* Stack programs: every program of MaxWords words made of the stack       *)
(* instructions, loaded at 0x0000 and run from reset for MaxSteps steps    *)
(***************************************************************************)
MaxWords == 6

MaxSteps == 6

\* PUSH R1, POP R1, RET, HALT
StackInstructions ==
    {MAKE_INSTR(OP_PUSH, 0, 1, 0), MAKE_INSTR(OP_POP, 1, 0, 0),
     MAKE_INSTR(OP_RET, 0, 0, 0), MAKE_INSTR(OP_HALT, 0, 0, 0)}

\* CALL, and the address words 0x0006 and 0x000A that may follow it
CallWord == MAKE_INSTR(OP_CALL, 0, 0, 0)

CallTargets == {6, 10}

\* a sequence of instructions: the address words are those after a CALL
IsProgram(words) ==
    \A i \in 1..Len(words) :
        (words[i] \in CallTargets) <=> (i > 1 /\ words[i - 1] = CallWord)

\* the binary file of a sequence of words: each word low byte first
WordBytes(words) ==
    [k \in 1..(2 * Len(words)) |->
        IF k % 2 = 1 THEN words[(k + 1) \div 2] % 256 ELSE words[k \div 2] \div 256]

InitStack ==
    \E prog \in [1..MaxWords -> StackInstructions \cup {CallWord} \cup CallTargets] :
        /\ IsProgram(prog)
        /\ IsMachine(Loaded(WordBytes(prog), PROGRAM_START))
        /\ nest = NoNest
        /\ last = NoneYet(PROGRAM_START, 0)

BoundedStep == instruction_count < MaxSteps /\ Step

NextStack == BoundedStep

SpecStack == InitStack /\ [][NextStack]_vars

(***************************************************************************)
(* The ALU on its own: operations applied to operands drawn from TestWords *)
(* with the CPU's FLAGS word as the flags reference                        *)
(***************************************************************************)
TestWords == {0, 1, 2, 7, 255, 256, 4660, 32767, 32768, 65534, 65535}

InitALU ==
    /\ IsMachine(Constructed)
    /\ nest = NoNest
    /\ last = NoneYet(PROGRAM_START, 0)

\* ALU::div(a, b, flags)
AluDiv ==
    \E a \in TestWords, b \in TestWords :
      \E r \in {ALU_div(a, b, flags)} :
        /\ flags' = r.flags
        /\ last' = [Did("div", a, b, r.result) EXCEPT !.n = last.n]
        /\ UNCHANGED <<registers, pc, sp, halted, instruction_count,
                       data, console, nest>>

AluOperations ==
    {"add", "sub", "mul", "div", "and_op", "or_op", "xor_op", "not_op",
     "shl", "shr", "compare"}

\* the call ALU::op(a, b, flags) with flags holding f; not_op takes a alone
Apply(op, a, b, f) ==
    CASE op = "add" -> ALU_add(a, b, f)
      [] op = "sub" -> ALU_sub(a, b, f)
      [] op = "mul" -> ALU_mul(a, b, f)
      [] op = "div" -> ALU_div(a, b, f)
      [] op = "and_op" -> ALU_and_op(a, b, f)
      [] op = "or_op" -> ALU_or_op(a, b, f)
      [] op = "xor_op" -> ALU_xor_op(a, b, f)
      [] op = "not_op" -> ALU_not_op(a, f)
      [] op = "shl" -> ALU_shl(a, b, f)
      [] op = "shr" -> ALU_shr(a, b, f)
      [] op = "compare" -> ALU_compare(a, b, f)

OperandWords == {0, 1, 16, 32768, 65535}

\* any ALU operation, called with the FLAGS word as the last call left it
AluApply ==
    \E op \in AluOperations, a \in OperandWords, b \in OperandWords :
      \E r \in {Apply(op, a, b, flags)} :
        /\ flags' = r.flags
        /\ last' = [Did(op, a, b, r.result) EXCEPT !.n = last.n]
        /\ UNCHANGED <<registers, pc, sp, halted, instruction_count,
                       data, console, nest>>

NextALU == AluDiv \/ AluApply

SpecALU == InitALU /\ [][NextALU]_vars

(***************************************************************************)
(* The ALU functions applied to a chosen pair of operands                   *)
(***************************************************************************)
\* first operands: the test words and 3, 5, 0x0080, 0x5555, 0x7FFE, 0x8001,
\* 0xAAAA, 0xC000, 0xFFFD
ArgWords == TestWords \cup {3, 5, 128, 21845, 32766, 32769, 43690, 49152, 65533}

\* second operands: those words and the shift counts 0..17
SecondWords == ArgWords \cup (0..17)

\* the operands a test of the ALU calls its functions with
InitOperands ==
    \E a \in ArgWords, b \in SecondWords :
        /\ IsMachine(Constructed)
        /\ nest = NoNest
        /\ last = [NoneYet(a, b) EXCEPT !.op = "operands"]

\* ALU::op(a, b, flags) on those operands, with the flags word as the call
\* before left it
AluCall ==
    \E op \in AluOperations :
      \E r \in {Apply(op, last.a, last.b, flags)} :
        /\ flags' = r.flags
        /\ last' = [Did(op, last.a, last.b, r.result) EXCEPT !.n = last.n]
        /\ UNCHANGED <<registers, pc, sp, halted, instruction_count,
                       data, console, nest>>

NextOperands == AluCall

SpecOperands == InitOperands /\ [][NextOperands]_vars

(***************************************************************************)
(* A memory into which the host loads files, MaxLoads of them               *)
(***************************************************************************)
MaxLoads == 2

\* the bytes of the files: none, one byte, bytes of 0 among others
LoadImages == {<< >>, << 90 >>, << 0 >>, << 1, 2 >>, << 0, 255, 0 >>, << 7, 0, 9 >>}

\* start addresses: 0x0000, 0x0001, 0xEFFF, 0xFFFD, 0xFFFE, 0xFFFF
LoadAddresses ==
    {PROGRAM_START, 1, IO_CONSOLE_OUT - 1, MEMORY_SIZE - 3, MEMORY_SIZE - 2, MEMORY_SIZE - 1}

InitLoad ==
    /\ IsMachine(Constructed)
    /\ nest = NoNest
    /\ last = NoneYet(PROGRAM_START, << >>)

\* Memory::load_program(filename, start_address) on a file holding bytes;
\* the history keeps the bytes and whether true was returned
LoadProgram ==
    /\ last.n < MaxLoads
    /\ \E bytes \in LoadImages, start_address \in LoadAddresses :
         \E r \in {load_program(data, bytes, start_address)} :
           /\ data' = r.data
           /\ last' = Did("load_program", start_address, bytes, IF r.ok THEN 1 ELSE 0)
           /\ UNCHANGED <<registers, pc, sp, flags, halted, instruction_count,
                          console, nest>>

NextLoad == LoadProgram

SpecLoad == InitLoad /\ [][NextLoad]_vars

(***************************************************************************)
(* The encoding macros applied to chosen fields                             *)
(***************************************************************************)
\* the arguments of MAKE_INSTR (op, rd, rs, rt) or MAKE_INSTR_IMM7 (op, rd,
\* imm with imm in -64..63)
InitFields ==
    /\ IsMachine(Constructed)
    /\ nest = NoNest
    /\ \/ \E op \in 0..63, rd \in 0..7, rs \in 0..7, rt \in 0..15 :
            last = [NoneYet(<< op, rd, rs, rt >>, 0) EXCEPT !.op = "fields"]
       \/ \E op \in 0..63, rd \in 0..7, imm \in (-64)..63 :
            last = [NoneYet(<< op, rd, imm >>, 0) EXCEPT !.op = "fields"]

\* the instruction word the macro makes of the fields
Encode ==
    /\ last.op = "fields"
    /\ last' =
           IF Len(last.a) = 4
           THEN Did("MAKE_INSTR", last.a, 0,
                    MAKE_INSTR(last.a[1], last.a[2], last.a[3], last.a[4]))
           ELSE Did("MAKE_INSTR_IMM7", last.a, 0,
                    MAKE_INSTR_IMM7(last.a[1], last.a[2], last.a[3]))
    /\ UNCHANGED <<registers, pc, sp, flags, halted, instruction_count,
                   data, console, nest>>

NextFields == Encode

SpecFields == InitFields /\ [][NextFields]_vars

(***************************************************************************)
(* The machine under its host: a memory holding a small program at 0x0000  *)
(* and a byte loaded at the console port's address, on which the host      *)
(* writes bytes and words and steps the CPU, MaxOps operations in all      *)
(***************************************************************************)
MaxOps == 3

\* 0x0100, 0xEFFF, 0xF000, 0xFFFF
TestAddresses == {256, IO_CONSOLE_OUT - 1, IO_CONSOLE_OUT, MEMORY_SIZE - 1}

\* 0x1234, 0xABCD
TestValues == {4660, 43981}

\* the byte file loaded at 0xF000: nothing, or the one byte 0x5A
PortImages == {<< >>, << 90 >>}

\* a program storing R1 at the console port and across it
ProbeSource ==
    << Imm7(OP_MOVI, 1, 33),
       Dir(OP_STORE_DIR, 0, 1, IO_CONSOLE_OUT),
       Dir(OP_STORE_DIR, 0, 1, IO_CONSOLE_OUT - 1),
       Ins(OP_HALT, 0, 0, 0) >>

Init ==
    \E image \in PortImages :
        /\ IsMachine([Constructed EXCEPT !.data =
               load_program(load_program(clear, Assemble(ProbeSource), PROGRAM_START).data,
                            image, IO_CONSOLE_OUT).data])
        /\ nest = NoNest
        /\ last = NoneYet(IO_CONSOLE_OUT, Len(image))

\* Memory::write_byte(address, value) called by the host
WriteByte ==
    /\ last.n < MaxOps
    /\ \E address \in TestAddresses, value \in {ToByte(w) : w \in TestValues} :
         \E m \in {write_byte(Mem(Machine), address, value)} :
           /\ data' = m.data
           /\ console' = m.console
           /\ last' = Did("write_byte", address, value, 0)
           /\ UNCHANGED <<registers, pc, sp, flags, halted, instruction_count, nest>>

\* Memory::write_word(address, value) called by the host
WriteWord ==
    /\ last.n < MaxOps
    /\ \E address \in TestAddresses, value \in TestValues :
         \E m \in {write_word(Mem(Machine), address, value)} :
           /\ data' = m.data
           /\ console' = m.console
           /\ last' = Did("write_word", address, value, 0)
           /\ UNCHANGED <<registers, pc, sp, flags, halted, instruction_count, nest>>

CpuStep == last.n < MaxOps /\ Step

Next == WriteByte \/ WriteWord \/ CpuStep

Spec == Init /\ [][Next]_vars

(***************************************************************************)
(* Test programs: short programs exercising one instruction family each,   *)
(* loaded at 0x0000 and run from reset for MaxProgramSteps steps           *)
(***************************************************************************)
MaxProgramSteps == 12

HaltWord == MAKE_INSTR(OP_HALT, 0, 0, 0)

ConditionalJumps == {OP_JZ, OP_JNZ, OP_JC, OP_JNC, OP_JN}

\* NOP (FLAGS stay 0), CMPI R0, 0 (sets Z), CMPI R0, 1 (sets C and N)
FlagSetters == {0, MAKE_INSTR(OP_CMPI, 0, 0, 0), MAKE_INSTR(OP_CMPI, 0, 0, 1)}

\* 0x0008, the odd 0x0009, and 0x0006, the jump's own fall-through address
JumpTargets == {8, 9, 6}

\* a flag setter at 0x0000, a jump at 0x0002 with its address word, HALT at
\* 0x0006 and at 0x0008
BranchPrograms ==
    {<< setter, MAKE_INSTR(jump, 0, 0, 0), target, HaltWord, HaltWord >> :
        setter \in FlagSetters, jump \in ConditionalJumps \cup {OP_JMP},
        target \in JumpTargets}

\* MOVI R1, 5; CMPI R0, 1; PUSH R1; HALT; and two words of opcodes 37 and 63
\* that the table does not hold
TrapWords ==
    {MAKE_INSTR_IMM7(OP_MOVI, 1, 5), MAKE_INSTR(OP_CMPI, 0, 0, 1),
     MAKE_INSTR(OP_PUSH, 0, 1, 0), HaltWord,
     MAKE_INSTR(OP_HALT + 1, 0, 0, 0), MAKE_INSTR(63, 7, 7, 15)}

TrapPrograms == [1..3 -> TrapWords]

\* MOVI R1, t; PUSH R1; RET: a return to 0x0006 or to the odd 0x0007
ReturnPrograms ==
    {<< MAKE_INSTR_IMM7(OP_MOVI, 1, target), MAKE_INSTR(OP_PUSH, 0, 1, 0),
        MAKE_INSTR(OP_RET, 0, 0, 0), HaltWord, HaltWord >> : target \in {6, 7}}

\* R0..R7 set to 1..8, then PUSH Ra (its unused rd field 0 or 5), POP Rb
PushPopPrograms ==
    {[i \in 1..NUM_REGISTERS |-> MAKE_INSTR_IMM7(OP_MOVI, i - 1, i)]
       \o << MAKE_INSTR(OP_PUSH, unused, a, 0), MAKE_INSTR(OP_POP, b, 0, 0), HaltWord >> :
        a \in 0..(NUM_REGISTERS - 1), b \in 0..(NUM_REGISTERS - 1), unused \in {0, 5}}

\* the imm7 fields of 0, 5, -64 and -1
CompareValues == {0, 5, 64, 127}

\* SUB R3, R1, R2 and SUBI R3, R1, 1
SubtractWords == {MAKE_INSTR(OP_SUB, 3, 1, 2), MAKE_INSTR(OP_SUBI, 3, 1, 1)}

\* CMP of R1, R2 and R3 with each other and with the word past the register
\* array (rt = 9); CMPI of R1 with 0, 1, 7, -8 and -1
CompareWords ==
    {MAKE_INSTR(OP_CMP, 0, 1, 2), MAKE_INSTR(OP_CMP, 5, 2, 1), MAKE_INSTR(OP_CMP, 0, 3, 3),
     MAKE_INSTR(OP_CMP, 0, 1, 9)}
    \cup {MAKE_INSTR(OP_CMPI, 0, 1, imm4) : imm4 \in {0, 1, 7, 8, 15}}

\* MOVI R1, x; MOVI R2, y; a subtraction; a comparison; HALT
ComparePrograms ==
    {<< MAKE_INSTR_IMM7(OP_MOVI, 1, x), MAKE_INSTR_IMM7(OP_MOVI, 2, y), subtract, compare,
        HaltWord >> :
        x \in CompareValues, y \in CompareValues,
        subtract \in SubtractWords, compare \in CompareWords}

\* NOP or CMPI R0, 1; MOVI R3, imm7 for each of the 128 fields; HALT
ImmediatePrograms ==
    {<< setter, MAKE_INSTR_IMM7(OP_MOVI, 3, imm7), HaltWord >> :
        setter \in {0, MAKE_INSTR(OP_CMPI, 0, 0, 1)}, imm7 \in 0..127}

\* the opcodes of the forms with a 4-bit immediate
Imm4Opcodes == {OP_ADDI, OP_SUBI, OP_CMPI, OP_ANDI, OP_ORI, OP_SHLI, OP_SHRI}

\* MOVI R1, x (x = 0, 5 or -1); op R3, R1, imm4 for each of the 16 fields;
\* HALT
Imm4Programs ==
    {<< MAKE_INSTR_IMM7(OP_MOVI, 1, x), MAKE_INSTR(op, 3, 1, imm4), HaltWord >> :
        x \in {0, 5, 127}, op \in Imm4Opcodes, imm4 \in 0..15}

\* every opcode of the table, the first unknown one and the last
ProbedOpcodes == KnownOpcodes \cup {OP_HALT + 1, 63}

\* MOVI R1, x (5 or -1); MOVI R2, y (0 or 1); CMPI R0, 1, which sets C and N;
\* a word of each opcode with the fields R3, R1, R2; the word 0x000A or
\* 0xFFFE, which is the inline address of the forms that take one and the
\* next instruction of the others; HALT at 0x000A; HALT
OpcodePrograms ==
    {<< MAKE_INSTR_IMM7(OP_MOVI, 1, x), MAKE_INSTR_IMM7(OP_MOVI, 2, y),
        MAKE_INSTR(OP_CMPI, 0, 0, 1), MAKE_INSTR(op, 3, 1, 2), address,
        HaltWord, HaltWord >> :
        x \in {5, 127}, y \in {0, 1}, op \in ProbedOpcodes, address \in {10, 65534}}

TestPrograms ==
    BranchPrograms \cup TrapPrograms \cup ReturnPrograms \cup PushPopPrograms
    \cup ComparePrograms \cup ImmediatePrograms \cup Imm4Programs
    \cup OpcodePrograms

InitPrograms ==
    \E prog \in TestPrograms :
        /\ IsMachine(Loaded(WordBytes(prog), PROGRAM_START))
        /\ nest = NoNest
        /\ last = NoneYet(PROGRAM_START, Len(prog))

ProgramStep == instruction_count < MaxProgramSteps /\ Step

NextPrograms == ProgramStep

SpecPrograms == InitPrograms /\ [][NextPrograms]_vars

(***************************************************************************)
(* A program whose stack grows by one word per turn of its loop, run until  *)
(* the stack has reached the console port                                   *)
(***************************************************************************)
\* one MOVI, then 2047 turns of four instructions take SP from 0xFFFF to
\* 0xF001; the PUSH and the POP of the next turn make 8191 steps
MaxDeepSteps == 8192

\* MOVI R1, v; loop: PUSH R1; POP R2; PUSH R0; JMP loop.  R0 is 0 since reset,
\* so that the stack the loop leaves behind is a run of zero words
DeepPrograms ==
    {<< MAKE_INSTR_IMM7(OP_MOVI, 1, v), MAKE_INSTR(OP_PUSH, 0, 1, 0),
        MAKE_INSTR(OP_POP, 2, 0, 0), MAKE_INSTR(OP_PUSH, 0, 0, 0),
        MAKE_INSTR(OP_JMP, 0, 0, 0), 2 >> : v \in {5, 127}}

InitDeep ==
    \E prog \in DeepPrograms :
        /\ IsMachine(Loaded(WordBytes(prog), PROGRAM_START))
        /\ nest = NoNest
        /\ last = NoneYet(PROGRAM_START, Len(prog))

\* CPU::step, the history of the stack discipline not kept
DeepStep ==
    /\ instruction_count < MaxDeepSteps
    /\ \E u \in (IF ReadsPastRegisters(Machine) THEN UBWords ELSE {0}) :
         \E t \in {step(Machine, u)} :
           /\ SetMachine(t)
           /\ last' = Did("step", pc, Fetched(Machine), 0)
           /\ UNCHANGED nest

NextDeep == DeepStep

SpecDeep == InitDeep /\ [][NextDeep]_vars

(***************************************************************************)
(* The test programs, run by a host that may call reset at any moment       *)
(***************************************************************************)
\* CPU::step, as one of at most MaxProgramSteps calls the host makes
HostStep == last.n < MaxProgramSteps /\ Step

\* CPU::reset called by the host; the history keeps whether the CPU was
\* halted and the instruction count it had
Reset ==
    /\ last.n < MaxProgramSteps
    /\ SetMachine(reset(Machine))
    /\ nest' = NoNest
    /\ last' = Did("reset", IF halted THEN 1 ELSE 0, instruction_count, 0)

NextReset == HostStep \/ Reset

SpecReset == InitPrograms /\ [][NextReset]_vars

(***************************************************************************)
(* The factorial program's run                                             *)
(***************************************************************************)
\* the image of programs/factorial.asm as shipped (n = 5), and of its variants
FactorialImages == [n \in 1..MaxArg |-> FactorialImage(n)]

HoldsImage(bytes) == \A k \in 1..Len(bytes) : read_byte(data, k - 1) = bytes[k]

RunsFactorialOf(n) == n \in 1..MaxArg /\ HoldsImage(FactorialImages[n])

RunsFactorial == RunsFactorialOf(5)

\* addresses pass 1 gives: the instruction after the main program's CALL, the
\* one after the recursive CALL, and the CMPI that follows FACTORIAL's PUSH R1
CallSites ==
    {i \in 1..Len(FactorialSource(5)) :
        /\ FactorialSource(5)[i].kind = "branch"
        /\ FactorialSource(5)[i].op = OP_CALL}

MainReturn ==
    AddressOf(FactorialSource(5), 1 + CHOOSE i \in CallSites : \A j \in CallSites : i <= j)

InnerReturn ==
    AddressOf(FactorialSource(5), 1 + CHOOSE i \in CallSites : \A j \in CallSites : i >= j)

BaseCheck == SymbolTable(FactorialSource(5)).FACTORIAL + 2

RECURSIVE Factorial(_)
Factorial(n) == IF n <= 1 THEN 1 ELSE n * Factorial(n - 1)

\* C2: run from reset, the factorial program eventually reaches the halted
\* state, and whenever it is halted R0 = 120 and SP = 0xFFFF.
C2_FactorialHalts ==
    /\ RunsFactorial => <>halted
    /\ [](RunsFactorial /\ halted => registers[0] = 120 /\ sp = 65535)

C2_Witness == RunsFactorial /\ halted /\ registers[0] = 120 /\ sp = 65535

\* "F(5) = 120" and a newline
ExpectedOutput == << 70, 40, 53, 41, 32, 61, 32, 49, 50, 48, 10 >>

IsPrefix(p, q) == Len(p) <= Len(q) /\ SubSeq(q, 1, Len(p)) = p

\* C3: the factorial program's console output is at every moment a prefix of
\* the bytes of "F(5) = 120\n", and is exactly those bytes once it has halted.
C3_FactorialOutput ==
    RunsFactorial =>
        /\ IsPrefix(console, ExpectedOutput)
        /\ halted => console = ExpectedOutput

C3_Witness ==
    /\ RunsFactorial /\ halted
    /\ Len(console) = 11
    /\ SubSeq(console, 8, 11) = << 49, 50, 48, 10 >>

\* C4: while the factorial program runs SP never goes below 0xFFE3, 28 bytes
\* under 0xFFFF.
C4_StackDepth == RunsFactorial => sp >= 65507 /\ 65535 - sp <= 28

\* SP = 0xFFE3 while factorial(1) executes: after its PUSH R1, at its CMPI
C4_Witness == RunsFactorial /\ sp = 65507 /\ registers[1] = 1 /\ pc = BaseCheck

\* C5: whenever a CALL to FACTORIAL made with R1 = n has returned (to the
\* instruction after the main program's CALL or after the recursive CALL),
\* R0 = n!, R1 = n again, and SP is what it was before that CALL: 0xFFFF for
\* the main program's, and 6 bytes lower for every level of recursion.
C5_FactorialCall ==
    \A n \in 1..MaxArg :
        RunsFactorialOf(n) =>
            /\ pc = MainReturn =>
                   /\ registers[0] = Factorial(n)
                   /\ registers[1] = n
                   /\ sp = 65535
            /\ pc = InnerReturn =>
                   /\ registers[1] \in 1..(n - 1)
                   /\ registers[0] = Factorial(registers[1])
                   /\ sp = 65535 - 6 * (n - registers[1])

C5_Witness ==
    /\ RunsFactorialOf(6) /\ pc = MainReturn
    /\ registers[0] = 720 /\ registers[1] = 6 /\ sp = 65535

\* C6: when the factorial program has halted the instruction counter is 90.
C6_InstructionCount == RunsFactorial /\ halted => instruction_count = 90

C6_Witness == RunsFactorial /\ halted /\ instruction_count = 90

(***************************************************************************)
(* Stack balance                                                           *)
(***************************************************************************)
\* the CPU halted by executing HALT
HaltedByHALT == halted /\ last.op = "step" /\ GET_OPCODE(last.b) = OP_HALT

\* every POP so far took the innermost open PUSH, every RET the innermost
\* open CALL, and none is left open
Balanced == nest.ok /\ nest.open = << >>

\* C1: a program run from reset whose executed PUSHes and CALLs are matched by
\* POPs and RETs, properly nested, and which reaches HALT, halts with
\* SP = 0xFFFF.
C1_StackBalance == HaltedByHALT /\ Balanced => sp = STACK_END

\* PUSH R1; CALL 0x000A; POP R1; HALT; RET has run: the CALL and its RET
\* inside the PUSH and its POP
C1_Witness ==
    /\ HaltedByHALT /\ Balanced /\ sp = STACK_END
    /\ instruction_count = 5
    /\ GET_OPCODE(read_word(data, 0)) = OP_PUSH
    /\ GET_OPCODE(read_word(data, 2)) = OP_CALL
    /\ GET_OPCODE(read_word(data, 6)) = OP_POP
    /\ read_word(data, STACK_END - 4) = 6

(***************************************************************************)
(* ALU::div                                                                *)
(***************************************************************************)
Flag(f) == BitAnd(flags, f) # 0

\* C7: ALU::div returns the quotient, or 0xFFFF for a zero divisor; V = 1 iff
\* the divisor is 0, C = 0, and Z and N are those of the returned result (so
\* N = 1 for a zero divisor).
C7_DivFlags ==
    last.op = "div" =>
        /\ last.result = IF last.b # 0 THEN last.a \div last.b ELSE 65535
        /\ Flag(FLAG_OVERFLOW) <=> last.b = 0
        /\ ~Flag(FLAG_CARRY)
        /\ Flag(FLAG_ZERO) <=> last.result = 0
        /\ Flag(FLAG_NEGATIVE) <=> last.result >= 32768

\* div(0x1234, 0) has returned 0xFFFF and left V alone
C7_Witness ==
    /\ last.op = "div" /\ last.a = 4660 /\ last.b = 0
    /\ last.result = 65535
    /\ flags = FLAG_OVERFLOW

(***************************************************************************)
(* Memory and the console port                                             *)
(***************************************************************************)
LowByte(w) == w % 256

HighByte(w) == (w \div 256) % 256

\* write_word(A, W) was the last operation
WroteWord == last.op = "write_word"

\* C8 as stated: for every address A and word W, after write_word(A, W)
\* read_byte(A) is the low byte of W and read_byte(A + 1) the high byte.
C8_LittleEndianEverywhere ==
    WroteWord =>
        /\ read_byte(data, last.a) = LowByte(last.b)
        /\ read_byte(data, ToWord(last.a + 1)) = HighByte(last.b)

\* C8: for every address A but 0xEFFF and 0xF000 and every word W, after
\* write_word(A, W) read_byte(A) is the low byte of W and read_byte(A + 1),
\* the address taken modulo 65536, the high byte; at 0xEFFF and 0xF000 the
\* byte that falls on 0xF000 goes to the console and the other one is stored.
C8_LittleEndian ==
    WroteWord =>
        /\ last.a \notin {IO_CONSOLE_OUT - 1, IO_CONSOLE_OUT} =>
               /\ read_byte(data, last.a) = LowByte(last.b)
               /\ read_byte(data, ToWord(last.a + 1)) = HighByte(last.b)
        /\ last.a = IO_CONSOLE_OUT - 1 =>
               /\ read_byte(data, last.a) = LowByte(last.b)
               /\ console[Len(console)] = HighByte(last.b)
        /\ last.a = IO_CONSOLE_OUT =>
               /\ console[Len(console)] = LowByte(last.b)
               /\ read_byte(data, last.a + 1) = HighByte(last.b)

\* write_word(0xFFFF, 0xABCD) has put 0xCD at 0xFFFF and 0xAB at 0x0000
C8_Witness ==
    /\ WroteWord /\ last.a = MEMORY_SIZE - 1 /\ last.b = 43981
    /\ read_byte(data, MEMORY_SIZE - 1) = 205
    /\ read_byte(data, 0) = 171

\* C9: no byte write, word write or CPU step changes the backing byte at
\* 0xF000; a byte written to 0xF000 is appended to the console output, and a
\* read of 0xF000 afterwards gives the backing byte as it was.
C9_ConsoleIsolation ==
    [][/\ read_byte(data', IO_CONSOLE_OUT) = read_byte(data, IO_CONSOLE_OUT)
       /\ last'.op = "write_byte" /\ last'.a = IO_CONSOLE_OUT =>
              console' = Append(console, last'.b)]_vars

\* 0x5A was loaded at 0xF000, the CPU has stored R1 there, and then the host
\* has written another byte to 0xF000
C9_Witness ==
    /\ read_byte(data, IO_CONSOLE_OUT) = 90
    /\ last.op = "write_byte" /\ last.a = IO_CONSOLE_OUT /\ last.b # 90
    /\ instruction_count >= 2
    /\ Len(console) >= 2
    /\ console[Len(console)] = last.b

\* C10: a word write at 0xEFFF or at 0xF000 emits exactly one byte to the
\* console, and a word write at any other address emits none.
C10_StraddlingStore ==
    WroteWord =>
        Len(console) - last.out =
            IF last.a \in {IO_CONSOLE_OUT - 1, IO_CONSOLE_OUT} THEN 1 ELSE 0

\* write_word(0xEFFF, W) has emitted the one byte W >> 8
C10_Witness ==
    /\ WroteWord /\ last.a = IO_CONSOLE_OUT - 1
    /\ Len(console) = last.out + 1
    /\ console[Len(console)] = HighByte(last.b)

(***************************************************************************)
(* Single instructions                                                     *)
(***************************************************************************)
\* the CPU is about to execute an instruction of this opcode
Executes(opcode) == ~halted /\ GET_OPCODE(Fetched(Machine)) = opcode

\* the word after the instruction word at PC
InlineAddress == read_word(data, ToWord(pc + 2))

\* the predicate of a conditional jump on FLAGS
JumpPredicate(opcode) ==
    CASE opcode = OP_JZ -> Flag(FLAG_ZERO)
      [] opcode = OP_JNZ -> ~Flag(FLAG_ZERO)
      [] opcode = OP_JC -> Flag(FLAG_CARRY)
      [] opcode = OP_JNC -> ~Flag(FLAG_CARRY)
      [] opcode = OP_JN -> Flag(FLAG_NEGATIVE)

\* C11: a step executing a conditional jump at P with inline address T
\* leaves PC = T if the jump's predicate holds of FLAGS, and PC = P + 4
\* otherwise.
C11_ConditionalJump ==
    [][\A jump \in ConditionalJumps :
           Executes(jump) =>
               pc' = IF JumpPredicate(jump) THEN InlineAddress ELSE ToWord(pc + 4)]_vars

\* JC at 0x0002 with inline address 0x0008 was not taken (C = 0): PC = 0x0006
C11_Witness ==
    /\ last.op = "step" /\ last.a = 2 /\ GET_OPCODE(last.b) = OP_JC
    /\ ~Flag(FLAG_CARRY)
    /\ read_word(data, 4) = 8
    /\ pc = 6

(***************************************************************************)
(* ALU: flags are a function of the operands                               *)
(***************************************************************************)
\* flags words a call may find: every combination of Z, C, N, V, and 0xFFFF
IncomingFlags == (0..15) \cup {65535}

\* C12: the result an ALU operation returned and the flags it left are those
\* the same operation gives on the same operands from any other incoming
\* flags word.
C12_FlagDeterminism ==
    last.op \in AluOperations =>
        \A f \in IncomingFlags :
            Apply(last.op, last.a, last.b, f) = [result |-> last.result, flags |-> flags]

\* add(0xFFFF, 1) called on a flags word holding N (not 0) left Z and C only
C12_Witness ==
    /\ last.op = "add" /\ last.a = 65535 /\ last.b = 1
    /\ last.flags_in = FLAG_NEGATIVE
    /\ last.result = 0
    /\ flags = FLAG_ZERO + FLAG_CARRY

(***************************************************************************)
(* Alignment of SP and PC                                                  *)
(***************************************************************************)
\* C13 as stated: SP is even in every state reachable from reset.
C13_SPEven == sp % 2 = 0

\* C13: SP is odd in every state reachable from reset: reset sets it to
\* 0xFFFF and push and pop move it by 2.
C13_SPOdd == sp % 2 = 1

\* two words pushed: SP = 0xFFFB
C13_Witness == sp = STACK_END - 4 /\ nest.open = << "PUSH", "PUSH" >>

\* C14 as stated: for any loaded program PC is even whenever an instruction
\* is fetched.
C14_PCEven == ~halted => pc % 2 = 0

\* the instruction about to execute transfers control to an odd address: a
\* JMP, a CALL or a taken conditional jump with an odd inline address, or a
\* RET popping an odd word
OddTransfer ==
    \/ (Executes(OP_JMP) \/ Executes(OP_CALL)) /\ InlineAddress % 2 = 1
    \/ \E jump \in ConditionalJumps :
           Executes(jump) /\ JumpPredicate(jump) /\ InlineAddress % 2 = 1
    \/ Executes(OP_RET) /\ read_word(data, sp) % 2 = 1

\* C14: a step from an even PC leaves PC even unless it transfers control
\* to an odd address; PC is 0 at reset, so PC is even at every fetch as long
\* as no transfer to an odd address was made.
C14_PCEvenUnlessOddTarget ==
    [][pc % 2 = 0 /\ ~OddTransfer => pc' % 2 = 0]_vars

\* JMP 0x0008 was taken from 0x0002
C14_Witness ==
    /\ last.op = "step" /\ last.a = 2 /\ GET_OPCODE(last.b) = OP_JMP
    /\ pc = 8 /\ ~halted

(***************************************************************************)
(* Halting                                                                 *)
(***************************************************************************)
\* C15: a step of the halted CPU changes no register, nor PC, SP, FLAGS,
\* memory, the instruction counter or the console output, and leaves it
\* halted.
C15_HaltedTerminal ==
    [][halted => UNCHANGED <<registers, pc, sp, flags, halted,
                             instruction_count, data, console>>]_vars

\* step was called on the CPU halted by its third instruction
C15_Witness == halted /\ last.idle /\ instruction_count = 3 /\ sp = STACK_END - 2

\* what HALT and an unknown opcode do at address pc
Halts ==
    /\ halted'
    /\ pc' = ToWord(pc + 2)
    /\ instruction_count' = instruction_count + 1
    /\ UNCHANGED <<registers, flags, sp, data, console>>

\* C16: a step executing HALT at P sets halted and PC = P + 2, adds 1 to the
\* instruction counter and changes no register, flag, SP or memory byte.
C16_Halt == [][Executes(OP_HALT) => Halts]_vars

\* from reset, HALT at 0x0000: halted, instruction_count = 1, PC = 0x0002
C16_Witness ==
    /\ read_word(data, PROGRAM_START) = HaltWord
    /\ halted /\ instruction_count = 1 /\ pc = 2
    /\ sp = STACK_END /\ flags = 0

\* C17: a step executing a word whose opcode is not in the table does what a
\* HALT at that address does: it sets halted and PC = P + 2, adds 1 to the
\* instruction counter and changes nothing else.
C17_UnknownOpcode ==
    [][~halted /\ GET_OPCODE(Fetched(Machine)) \notin KnownOpcodes => Halts]_vars

\* MOVI R1, 5; PUSH R1; then the word of opcode 63 halted the CPU
C17_Witness ==
    /\ last.op = "step" /\ last.a = 4 /\ GET_OPCODE(last.b) = 63
    /\ halted /\ pc = 6 /\ instruction_count = 3
    /\ registers[1] = 5 /\ sp = STACK_END - 2

\* ---------------------------------------------------------------------
\* CALL and RET
\* ---------------------------------------------------------------------

\* the step before this one executed a CALL and no step was refused since
AfterCall == last.op = "step" /\ ~last.idle /\ GET_OPCODE(last.b) = OP_CALL

AfterMainCall ==
    /\ RunsFactorial
    /\ last.op = "step" /\ ~last.idle
    /\ last.a = ToWord(MainReturn - 4) /\ GET_OPCODE(last.b) = OP_CALL

Bits6to4 == (Fetched(Machine) \div 16) % 8

Bits9to7 == (Fetched(Machine) \div 128) % 8

\* C20: PUSH takes 2 from SP and then stores at SP the register named by
\* bits 6..4 of the instruction word, whatever its other fields hold, and
\* changes no register; POP loads the register named by bits 9..7 with the
\* word at SP and then adds 2 to SP; so the word MAKE_INSTR(PUSH, 0, r, 0)
\* pushes Rr and the word MAKE_INSTR(POP, r, 0, 0) pops into Rr, for every
\* r in 0..7.
C20_PushPop ==
    [][/\ Executes(OP_PUSH) =>
            /\ sp' = ToWord(sp - 2)
            /\ read_word(data', sp') = registers[Bits6to4]
            /\ UNCHANGED registers
       /\ Executes(OP_POP) =>
            /\ registers' = [registers EXCEPT ![Bits9to7] = read_word(data, sp)]
            /\ sp' = ToWord(sp + 2)
       /\ \A r \in 0..(NUM_REGISTERS - 1) :
            /\ ~halted /\ Fetched(Machine) = MAKE_INSTR(OP_PUSH, 0, r, 0) =>
                   read_word(data', ToWord(sp - 2)) = registers[r]
            /\ ~halted /\ Fetched(Machine) = MAKE_INSTR(OP_POP, r, 0, 0) =>
                   registers'[r] = read_word(data, sp)]_vars

\* R0..R7 hold 1..8; the PUSH word naming R3 in bits 6..4 (and R5 in bits
\* 9..7) and then POP R6 have executed: R6 holds R3's 4, R5 is unchanged
C20_Witness ==
    /\ read_word(data, 16) = MAKE_INSTR(OP_PUSH, 5, 3, 0)
    /\ last.op = "step" /\ last.a = 18 /\ last.b = MAKE_INSTR(OP_POP, 6, 0, 0)
    /\ registers = [i \in 0..(NUM_REGISTERS - 1) |-> IF i = 6 THEN 4 ELSE i + 1]
    /\ sp = STACK_END /\ read_word(data, STACK_END - 2) = 4
    /\ instruction_count = 10

\* ---------------------------------------------------------------------
\* reset
\* ---------------------------------------------------------------------

\* this transition is a call of reset
IsReset == last'.op = "reset" /\ last'.n = last.n + 1

\* C21: reset, from any CPU state, halted or not, sets R0..R7 to 0, PC to
\* 0x0000, SP to 0xFFFF, FLAGS to 0, halted to false and the instruction
\* counter to 0, and changes no memory byte (and prints nothing).
C21_Reset ==
    [][IsReset =>
           /\ registers' = [i \in 0..7 |-> 0]
           /\ pc' = 0
           /\ sp' = 65535
           /\ flags' = 0
           /\ halted' = FALSE
           /\ instruction_count' = 0
           /\ UNCHANGED <<data, console>>]_vars

\* MOVI R1, 5; PUSH R1; HALT ran and the halted CPU was reset: the pushed
\* word is still in memory
C21_Witness ==
    /\ last.op = "reset" /\ last.a = 1 /\ last.b = 3
    /\ registers = [i \in 0..7 |-> 0]
    /\ pc = 0 /\ sp = 65535 /\ flags = 0 /\ ~halted /\ instruction_count = 0
    /\ read_word(data, 2) = MAKE_INSTR(OP_PUSH, 0, 1, 0)
    /\ read_word(data, 65533) = 5

\* ---------------------------------------------------------------------
\* The ALU functions
\* ---------------------------------------------------------------------

\* bit 15 of a word
SignBit(w) == w \div 32768

\* C22: add(a, b) returns (a + b) mod 2^16 with C = 1 iff a + b > 0xFFFF,
\* V = 1 iff a and b have the same sign bit and the result's differs, Z = 1
\* iff the result is 0 and N = 1 iff bit 15 of the result is set; and
\* add(0xFFFF, 0x0001) gives 0x0000 with Z = 1, C = 1, N = 0, V = 0.
C22_Add ==
    last.op = "add" =>
        /\ last.result = (last.a + last.b) % 65536
        /\ Flag(FLAG_CARRY) <=> last.a + last.b > 65535
        /\ Flag(FLAG_OVERFLOW) <=>
               SignBit(last.a) = SignBit(last.b) /\ SignBit(last.result) # SignBit(last.a)
        /\ Flag(FLAG_ZERO) <=> last.result = 0
        /\ Flag(FLAG_NEGATIVE) <=> SignBit(last.result) = 1
        /\ flags \in 0..15
        /\ last.a = 65535 /\ last.b = 1 =>
               last.result = 0 /\ flags = FLAG_ZERO + FLAG_CARRY

\* add(0xFFFF, 0x0001) has returned 0x0000 with Z and C set, N and V clear
C22_Witness ==
    /\ last.op = "add" /\ last.a = 65535 /\ last.b = 1
    /\ last.result = 0
    /\ Flag(FLAG_ZERO) /\ Flag(FLAG_CARRY) /\ ~Flag(FLAG_NEGATIVE) /\ ~Flag(FLAG_OVERFLOW)

\* C23: sub(a, b) returns (a - b) mod 2^16 with C = 1 iff a < b as unsigned
\* words, V = 1 iff a and b have differing sign bits and the result's sign
\* bit differs from a's, Z = 1 iff the result is 0 and N = 1 iff bit 15 of
\* the result is set; and sub(0x0003, 0x0005) gives 0xFFFE with C = 1,
\* N = 1, Z = 0, V = 0.
C23_Sub ==
    last.op = "sub" =>
        /\ last.result = (last.a + 65536 - last.b) % 65536
        /\ Flag(FLAG_CARRY) <=> last.a < last.b
        /\ Flag(FLAG_OVERFLOW) <=>
               SignBit(last.a) # SignBit(last.b) /\ SignBit(last.result) # SignBit(last.a)
        /\ Flag(FLAG_ZERO) <=> last.result = 0
        /\ Flag(FLAG_NEGATIVE) <=> SignBit(last.result) = 1
        /\ flags \in 0..15
        /\ last.a = 3 /\ last.b = 5 =>
               last.result = 65534 /\ flags = FLAG_CARRY + FLAG_NEGATIVE

\* sub(0x0003, 0x0005) has returned 0xFFFE with C and N set, Z and V clear
C23_Witness ==
    /\ last.op = "sub" /\ last.a = 3 /\ last.b = 5
    /\ last.result = 65534
    /\ Flag(FLAG_CARRY) /\ Flag(FLAG_NEGATIVE) /\ ~Flag(FLAG_ZERO) /\ ~Flag(FLAG_OVERFLOW)

\* ---------------------------------------------------------------------
\* CMP and CMPI
\* ---------------------------------------------------------------------

\* the SUB (for CMP) or SUBI (for CMPI) word with the fields of the word w
SubtractionOf(w) ==
    MAKE_INSTR(IF GET_OPCODE(w) = OP_CMP THEN OP_SUB ELSE OP_SUBI,
               GET_RD(w), GET_RS(w), GET_RT(w))

\* the FLAGS the instruction word w leaves when executed in this state; more
\* than one value if it reads registers[rt] past the register array
FlagsAfter(w) ==
    {execute_instruction([Machine EXCEPT !.pc = ToWord(pc + 2)], w, u).flags :
        u \in (IF GET_RT(w) >= NUM_REGISTERS THEN UBWords ELSE {0})}

\* C24: a step executing CMP or CMPI changes none of R0..R7 and leaves in
\* FLAGS exactly the flags that SUB (for CMP) or SUBI (for CMPI) with the
\* same operand fields leaves when executed in the same state.
C24_Compare ==
    [][Executes(OP_CMP) \/ Executes(OP_CMPI) =>
           /\ UNCHANGED registers
           /\ flags' \in FlagsAfter(SubtractionOf(Fetched(Machine)))
           /\ GET_RT(Fetched(Machine)) < NUM_REGISTERS \/ Executes(OP_CMPI) =>
                  Cardinality(FlagsAfter(SubtractionOf(Fetched(Machine)))) = 1]_vars

\* R1 = 5, R2 = 0xFFC0, R3 = 69 left by SUB R3, R1, R2 with C set; then
\* CMP R2, R1 has left N alone set and the registers as they were
C24_Witness ==
    /\ last.op = "step" /\ last.b = MAKE_INSTR(OP_CMP, 5, 2, 1)
    /\ last.flags_in = FLAG_CARRY
    /\ flags = FLAG_NEGATIVE
    /\ registers[1] = 5 /\ registers[2] = 65472 /\ registers[3] = 69
    /\ registers[5] = 0

\* ---------------------------------------------------------------------
\* MOVI
\* ---------------------------------------------------------------------

\* bits 6..0 of the instruction word at PC
Bits6to0 == Fetched(Machine) % 128

\* C25: a step executing MOVI rd, imm7 sets Rd to the 16-bit two's
\* complement word of the 7-bit field read as a number in -64..63 (the
\* field itself if below 64, else the field - 128), changes no other
\* register and leaves FLAGS as they were.
C25_Movi ==
    [][Executes(OP_MOVI) =>
           /\ registers' =
                  [registers EXCEPT ![Bits9to7] =
                       IF Bits6to0 < 64 THEN Bits6to0 ELSE 65536 + (Bits6to0 - 128)]
           /\ flags' = flags]_vars

\* CMPI R0, 1; MOVI R3, -5; HALT has run: R3 = 0xFFFB and FLAGS still hold
\* the C and N the CMPI left
C25_Witness ==
    /\ read_word(data, 2) = MAKE_INSTR_IMM7(OP_MOVI, 3, 123)
    /\ halted /\ instruction_count = 3
    /\ registers[3] = 65531
    /\ flags = FLAG_CARRY + FLAG_NEGATIVE

\* ---------------------------------------------------------------------
\* Shifts
\* ---------------------------------------------------------------------

\* 2^0 .. 2^16
PowersOfTwo ==
    << 1, 2, 4, 8, 16, 32, 64, 128, 256, 512, 1024, 2048, 4096, 8192, 16384,
       32768, 65536 >>

\* bit i of the word w, i in 0..15
BitOf(w, i) == (w \div PowersOfTwo[i + 1]) % 2

\* C26: shl(a, k) returns a * 2^k truncated to 16 bits, 0 when k >= 16, with
\* C = bit (16 - k) of a for k in 1..15, C = bit 0 of a for k = 16, C = 0
\* for k > 16, Z = 1 iff the result is 0 and N = 1 iff bit 15 of the result
\* is set.
C26_Shl ==
    last.op = "shl" =>
        /\ last.result =
               IF last.b >= 16 THEN 0 ELSE (last.a * PowersOfTwo[last.b + 1]) % 65536
        /\ last.b \in 1..15 => (Flag(FLAG_CARRY) <=> BitOf(last.a, 16 - last.b) = 1)
        /\ last.b = 16 => (Flag(FLAG_CARRY) <=> BitOf(last.a, 0) = 1)
        /\ last.b > 16 => ~Flag(FLAG_CARRY)
        /\ Flag(FLAG_ZERO) <=> last.result = 0
        /\ Flag(FLAG_NEGATIVE) <=> SignBit(last.result) = 1

\* shl(0xAAAA, 3) has returned 0x5550 with C = bit 13 of 0xAAAA = 1
C26_Witness ==
    /\ last.op = "shl" /\ last.a = 43690 /\ last.b = 3
    /\ last.result = 21840
    /\ flags = FLAG_CARRY

\* the last call was shl(a, 0) or shr(a, 0)
ShiftedByZero == last.op \in {"shl", "shr"} /\ last.b = 0

\* C27 as stated: a shift of a by 0, left or right, returns a and leaves
\* FLAGS = 0.
C27_ShiftZeroClearsFlags ==
    ShiftedByZero => last.result = last.a /\ flags = 0

\* C27: a shift of a by 0, left or right, returns a and leaves C = 0 and
\* V = 0, with Z = 1 iff a is 0 and N = 1 iff bit 15 of a is set; FLAGS is
\* 0 exactly for a in 0x0001..0x7FFF.
C27_ShiftZero ==
    ShiftedByZero =>
        /\ last.result = last.a
        /\ ~Flag(FLAG_CARRY) /\ ~Flag(FLAG_OVERFLOW)
        /\ Flag(FLAG_ZERO) <=> last.a = 0
        /\ Flag(FLAG_NEGATIVE) <=> SignBit(last.a) = 1
        /\ flags = 0 <=> last.a \in 1..32767

\* shr(0x8000, 0) has returned 0x8000 and left N set
C27_Witness ==
    /\ last.op = "shr" /\ last.a = 32768 /\ last.b = 0
    /\ last.result = 32768
    /\ flags = FLAG_NEGATIVE

\* C28: for k >= 1, shr(a, k) returns a divided by 2^k, 0 when k >= 16, with
\* C = bit (k - 1) of a for k in 1..15, C = bit 15 of a for k = 16, C = 0
\* for k > 16, V = 0, Z = 1 iff the result is 0 and N = 1 iff bit 15 of the
\* result is set.
C28_Shr ==
    last.op = "shr" /\ last.b >= 1 =>
        /\ last.result = IF last.b >= 16 THEN 0 ELSE last.a \div PowersOfTwo[last.b + 1]
        /\ last.b \in 1..15 => (Flag(FLAG_CARRY) <=> BitOf(last.a, last.b - 1) = 1)
        /\ last.b = 16 => (Flag(FLAG_CARRY) <=> BitOf(last.a, 15) = 1)
        /\ last.b > 16 => ~Flag(FLAG_CARRY)
        /\ ~Flag(FLAG_OVERFLOW)
        /\ Flag(FLAG_ZERO) <=> last.result = 0
        /\ Flag(FLAG_NEGATIVE) <=> SignBit(last.result) = 1

\* shr(0x5555, 3) has returned 0x0AAA with C = bit 2 of 0x5555 = 1
C28_Witness ==
    /\ last.op = "shr" /\ last.a = 21845 /\ last.b = 3
    /\ last.result = 2730
    /\ flags = FLAG_CARRY

\* ---------------------------------------------------------------------
\* Multiplication and the logical operations
\* ---------------------------------------------------------------------

\* the low 16 bits of a * b, from the products of a with the two bytes of b
LowProduct(a, b) == (a * (b % 256) + ((a * (b \div 256)) % 256) * 256) % 65536

\* C29: mul(a, b) returns the low 16 bits of the product a * b with C = 1
\* iff the product exceeds 0xFFFF, V = 0, Z = 1 iff the result is 0 and
\* N = 1 iff bit 15 of the result is set.
C29_Mul ==
    last.op = "mul" =>
        /\ last.result = LowProduct(last.a, last.b)
        /\ Flag(FLAG_CARRY) <=> last.a > 0 /\ last.b > 65535 \div last.a
        /\ ~Flag(FLAG_OVERFLOW)
        /\ Flag(FLAG_ZERO) <=> last.result = 0
        /\ Flag(FLAG_NEGATIVE) <=> SignBit(last.result) = 1

\* mul(0xFFFF, 0xFFFF) = 0xFFFE0001 has returned 0x0001 with C alone set
C29_Witness ==
    /\ last.op = "mul" /\ last.a = 65535 /\ last.b = 65535
    /\ last.result = 1
    /\ flags = FLAG_CARRY

\* bit i of the result the logical operation op must give for the bits x
\* and y of its operands
LogicalBit(op, x, y) ==
    CASE op = "and_op" -> x * y
      [] op = "or_op" -> IF x + y >= 1 THEN 1 ELSE 0
      [] op = "xor_op" -> (x + y) % 2
      [] op = "not_op" -> 1 - x

\* C30: and_op, or_op, xor_op and not_op return the word whose every bit is
\* the AND, OR, XOR of the operands' bits, or the complement of a's bit; Z
\* is set iff the result is 0, N iff bit 15 of the result is set, and C and
\* V are left 0.
C30_Logical ==
    last.op \in {"and_op", "or_op", "xor_op", "not_op"} =>
        /\ last.result \in 0..65535
        /\ \A i \in 0..15 :
               BitOf(last.result, i) = LogicalBit(last.op, BitOf(last.a, i), BitOf(last.b, i))
        /\ Flag(FLAG_ZERO) <=> last.result = 0
        /\ Flag(FLAG_NEGATIVE) <=> SignBit(last.result) = 1
        /\ ~Flag(FLAG_CARRY) /\ ~Flag(FLAG_OVERFLOW)

\* xor_op(0xAAAA, 0x5555) has returned 0xFFFF with N alone set
C30_Witness ==
    /\ last.op = "xor_op" /\ last.a = 43690 /\ last.b = 21845
    /\ last.result = 65535
    /\ flags = FLAG_NEGATIVE

\* ---------------------------------------------------------------------
\* load_program
\* ---------------------------------------------------------------------

\* this transition is a call of load_program
IsLoad == last'.op = "load_program" /\ last'.n = last.n + 1

\* the addresses the bytes of the call go to
LoadTarget == last'.a..(last'.a + Len(last'.b) - 1)

\* C31: load_program of len bytes at start returns false and changes no
\* memory byte if start + len > 65536; otherwise it returns true, the bytes
\* at start..start+len-1 are the given bytes and every other memory byte is
\* unchanged. (The memory holds the bytes that are not 0.)
C31_LoadProgram ==
    [][IsLoad =>
           IF last'.a + Len(last'.b) > 65536
           THEN last'.result = 0 /\ UNCHANGED data
           ELSE /\ last'.result = 1
                /\ \A k \in 1..Len(last'.b) :
                       read_byte(data', last'.a + k - 1) = last'.b[k]
                /\ \A x \in ((DOMAIN data) \cup (DOMAIN data')) \ LoadTarget :
                       read_byte(data', x) = read_byte(data, x)
                /\ DOMAIN data' \subseteq 0..65535]_vars

\* 7, 0, 9 were loaded at 0xFFFD, up to the last byte of memory; then the
\* load of two bytes at 0xFFFF has failed and left them there
C31_Witness ==
    /\ last.op = "load_program" /\ last.n = 2
    /\ last.a = 65535 /\ last.b = << 1, 2 >> /\ last.result = 0
    /\ read_byte(data, 65533) = 7 /\ read_byte(data, 65534) = 0
    /\ read_byte(data, 65535) = 9

\* ---------------------------------------------------------------------
\* Instruction fields
\* ---------------------------------------------------------------------

\* C32: for every opcode in 0..63, rd and rs in 0..7 and rt in 0..15, the
\* word MAKE_INSTR(opcode, rd, rs, rt) is a 16-bit word that GET_OPCODE,
\* GET_RD, GET_RS and GET_RT decode to (opcode, rd, rs, rt); and for every
\* imm in -64..63 the word MAKE_INSTR_IMM7(opcode, rd, imm) decodes to
\* opcode, rd and sign_extend_7bit(GET_IMM7(word)) = imm.
C32_FieldRoundTrip ==
    /\ last.op = "MAKE_INSTR" =>
           /\ last.result \in 0..65535
           /\ << GET_OPCODE(last.result), GET_RD(last.result), GET_RS(last.result),
                 GET_RT(last.result) >> = last.a
    /\ last.op = "MAKE_INSTR_IMM7" =>
           /\ last.result \in 0..65535
           /\ << GET_OPCODE(last.result), GET_RD(last.result),
                 sign_extend_7bit(GET_IMM7(last.result)) >> = last.a

\* MAKE_INSTR_IMM7(1, 3, -5) has given the word 0x05FB, whose imm7 field
\* 0x7B extends to -5
C32_Witness ==
    /\ last.op = "MAKE_INSTR_IMM7" /\ last.a = << 1, 3, -5 >>
    /\ last.result = 1531
    /\ GET_IMM7(last.result) = 123
    /\ sign_extend_7bit(GET_IMM7(last.result)) = -5

\* ---------------------------------------------------------------------
\* The register file
\* ---------------------------------------------------------------------

\* C33: the instruction a step is about to execute never takes from its
\* 4-bit rt field a register index of 8 or more, so that execute_instruction
\* reads only registers[0..7].
C33_RegisterIndexBelow8 == ~ReadsPastRegisters(Machine)

\* R1 = 5 and the word CMP R1 with rt = 9 has executed: it compared R1 with
\* what the read of registers[9] gave, here 0xFFFF, and left C alone set
C33_Witness ==
    /\ last.op = "step"
    /\ GET_OPCODE(last.b) = OP_CMP /\ GET_RT(last.b) = 9
    /\ registers[1] = 5
    /\ flags = FLAG_CARRY

\* ---------------------------------------------------------------------
\* The 4-bit immediate
\* ---------------------------------------------------------------------

\* bits 3..0 of the instruction word at PC; the word they denote when
\* sign-extended: 0..7, and 0xFFF8..0xFFFF for the fields 8..15
Bits3to0 == Fetched(Machine) % 16

SignedImm4 == IF Bits3to0 >= 8 THEN 65520 + Bits3to0 ELSE Bits3to0

\* C34: ADDI and SUBI add to and subtract from Rs the sign-extended field
\* and CMPI compares Rs with it (C = 1 iff Rs is below it as unsigned words,
\* Z = 1 iff they are equal); ANDI and ORI combine Rs bit by bit with the
\* field as the word 0..15, and SHLI and SHRI shift Rs by the field as a
\* count 0..15. The result goes to Rd.
C34_Imm4 ==
    [][/\ Executes(OP_ADDI) =>
            registers'[Bits9to7] = (registers[Bits6to4] + SignedImm4) % 65536
       /\ Executes(OP_SUBI) =>
            registers'[Bits9to7] = (registers[Bits6to4] + 65536 - SignedImm4) % 65536
       /\ Executes(OP_CMPI) =>
            /\ (flags' \div FLAG_CARRY) % 2 = 1 <=> registers[Bits6to4] < SignedImm4
            /\ (flags' \div FLAG_ZERO) % 2 = 1 <=> registers[Bits6to4] = SignedImm4
       /\ Executes(OP_ANDI) =>
            /\ registers'[Bits9to7] \in 0..15
            /\ \A i \in 0..3 :
                   BitOf(registers'[Bits9to7], i) =
                       BitOf(registers[Bits6to4], i) * BitOf(Bits3to0, i)
       /\ Executes(OP_ORI) =>
            /\ registers'[Bits9to7] \div 16 = registers[Bits6to4] \div 16
            /\ \A i \in 0..3 :
                   BitOf(registers'[Bits9to7], i) =
                       IF BitOf(registers[Bits6to4], i) + BitOf(Bits3to0, i) >= 1
                       THEN 1 ELSE 0
       /\ Executes(OP_SHLI) =>
            registers'[Bits9to7] =
                (registers[Bits6to4] * PowersOfTwo[Bits3to0 + 1]) % 65536
       /\ Executes(OP_SHRI) =>
            registers'[Bits9to7] = registers[Bits6to4] \div PowersOfTwo[Bits3to0 + 1]]_vars

\* R1 = 5 and ADDI R3, R1 with the field 15 has executed: R3 = 5 + 0xFFFF =
\* 4 with C set
C34_Witness ==
    /\ last.op = "step" /\ last.b = MAKE_INSTR(OP_ADDI, 3, 1, 15)
    /\ registers[1] = 5 /\ registers[3] = 4
    /\ flags = FLAG_CARRY

\* ---------------------------------------------------------------------
\* What every instruction does to PC, FLAGS and halted
\* ---------------------------------------------------------------------

\* the opcode of the instruction word at PC
Opcode == GET_OPCODE(Fetched(Machine))

ControlTransfers == ConditionalJumps \cup {OP_JMP, OP_CALL, OP_RET}

\* C35: a step executing at P an instruction that is not JMP, a conditional
\* jump, CALL or RET sets PC to (P + 4) mod 2^16 if it is LOAD_DIR or
\* STORE_DIR and to (P + 2) mod 2^16 otherwise, HALT and the unknown opcodes
\* included.
C35_PCAdvance ==
    [][~halted /\ Opcode \notin ControlTransfers =>
           pc' = (pc + (IF Opcode \in {OP_LOAD_DIR, OP_STORE_DIR} THEN 4 ELSE 2)) % 65536]_vars

\* LOAD_DIR R3, 0x000A at 0x0006 has executed: PC = 0x000A and R3 holds the
\* word at 0x000A, the HALT
C35_Witness ==
    /\ last.op = "step" /\ last.a = 6 /\ GET_OPCODE(last.b) = OP_LOAD_DIR
    /\ pc = 10
    /\ registers[3] = HaltWord
    /\ ~halted

\* the opcodes of the arithmetic, logical, shift and compare instructions
FlagWriters == OP_ADD..OP_CMPI

\* C37: a step executing an instruction that is not arithmetic, logical,
\* shift or compare (NOP/MOV, MOVI, the loads and stores, the jumps, CALL,
\* RET, PUSH, POP, HALT or an unknown opcode) leaves FLAGS unchanged.
C37_FlagsFrame ==
    [][~halted /\ Opcode \notin FlagWriters => flags' = flags]_vars

\* C and N were set by CMPI R0, 1; then STORE_DIR R1, 0xFFFE has executed
\* and they are still set
C37_Witness ==
    /\ last.op = "step" /\ GET_OPCODE(last.b) = OP_STORE_DIR
    /\ read_word(data, 65534) = 5
    /\ last.flags_in = FLAG_CARRY + FLAG_NEGATIVE
    /\ flags = FLAG_CARRY + FLAG_NEGATIVE

\* C38: halted goes from false to true only in a step that executes HALT or
\* an unknown opcode; a step executing any other instruction, DIV with a
\* zero divisor included, leaves halted false.
C38_HaltedOnlyByHalt ==
    [][~halted /\ Opcode \in KnownOpcodes \ {OP_HALT} => ~halted']_vars

\* DIV R3, R1, R2 with R2 = 0 at 0x0006 left R3 = 0xFFFF and V; the CPU was
\* not halted and has executed the word at 0x0008
C38_Witness ==
    /\ GET_OPCODE(read_word(data, 6)) = OP_DIV
    /\ last.op = "step" /\ last.a = 8
    /\ registers[2] = 0 /\ registers[3] = 65535
    /\ flags = FLAG_OVERFLOW
    /\ ~halted /\ instruction_count = 5

\* C39: FLAGS has no bit set outside bits 0..3, and Z and N are never both
\* set.
C39_FlagsRange ==
    /\ flags \in 0..15
    /\ ~(flags % 2 = 1 /\ (flags \div 4) % 2 = 1)

\* ADD R3, R1, R2 with R1 = 0xFFFF and R2 = 1 has left R3 = 0 with Z and C
C39_Witness ==
    /\ last.op = "step" /\ GET_OPCODE(last.b) = OP_ADD
    /\ registers[1] = 65535 /\ registers[2] = 1 /\ registers[3] = 0
    /\ flags = FLAG_ZERO + FLAG_CARRY

\* ---------------------------------------------------------------------
\* PUSH followed by POP
\* ---------------------------------------------------------------------

\* the last step executed a PUSH and PC points at the POP that follows it
PushThenPop ==
    /\ last.op = "step" /\ ~last.idle
    /\ GET_OPCODE(last.b) = OP_PUSH
    /\ pc = ToWord(last.a + 2)
    /\ Executes(OP_POP)

\* what the POP must leave: Rd equal to the register the PUSH named (PUSH
\* changes no register) and SP two above its present value, where it was
\* before the PUSH
Restores ==
    /\ registers'[Bits9to7] = registers[(last.b \div 16) % 8]
    /\ sp' = ToWord(sp + 2)

\* C36 as stated: for every SP and every register value, PUSH Rs followed
\* at once by POP Rd leaves Rd equal to the value Rs had and SP as it was
\* before the PUSH.
C36_PushPopAnywhere == [][PushThenPop => Restores]_vars

\* C36: PUSH Rs followed at once by POP Rd leaves Rd equal to the value Rs
\* had and SP as it was before the PUSH, provided neither byte of the pushed
\* word is at the console port 0xF000 (SP before the PUSH is not 0xF001 or
\* 0xF002); SP is restored in every case.
C36_PushPop ==
    [][PushThenPop =>
           /\ sp' = ToWord(sp + 2)
           /\ sp \notin {IO_CONSOLE_OUT - 1, IO_CONSOLE_OUT} => Restores]_vars

\* R1 = 0xFFFF was pushed with SP = 0xF001: the high byte went to the
\* console, and the POP has left R2 = 0x00FF and SP = 0xF001 again
C36_Witness ==
    /\ last.op = "step" /\ GET_OPCODE(last.b) = OP_POP
    /\ sp = IO_CONSOLE_OUT + 1
    /\ registers[1] = 65535 /\ registers[2] = 255
    /\ console = << 255 >>
    /\ instruction_count = 8191

====
